---- MODULE Spec2Model ----
(***************************************************************************)
(* Model of the PbDTool game store (src/unnamed/part_002, the svelte       *)
(* store built by createGameStore) on top of the IndexedDB wrapper         *)
(* (src/src/lib/stores/db.ts).                                             *)
(*                                                                         *)
(* Persistence is one table per object store (a function whose DOMAIN is   *)
(* the set of keys present); the svelte store's state holds one cached Map *)
(* per entity plus the loading and error fields.  Every store method is    *)
(* one action: the whole async handler, run without interleaving.          *)
(*                                                                         *)
(* Abstracted away: names, notes and Date stamps (createdAt, lastUpdated,  *)
(* lastAccessed), which no modelled condition reads.                       *)
(***************************************************************************)
EXTENDS Integers, Sequences, FiniteSets, Bags, TLC

(***************************************************************************)
(* Bounds of the model.                                                    *)
(***************************************************************************)
MaxAdds == 2            \* successful addParticipant calls
MaxUpdates == 2         \* longest updates list given to bulkUpdateInitiatives

\* crypto.randomUUID(): the ids it issues, in the order it issues them; an
\* id is never issued twice.
InstIdPool == <<"i1", "i2">>
CharIdPool == <<"c1", "c2">>
EncIdPool == <<"e1">>

Range(pool) == {pool[k] : k \in 1..Len(pool)}
InstIds == Range(InstIdPool)
CharIds == Range(CharIdPool)
EncIds == Range(EncIdPool)

\* the initiative scores callers pass in: signed integers around 0
InitVals == {-1, 0, 1}

\* a property that is absent from a JS object reads as undefined
Undefined == "undefined"

Ok == "ok"
\* message of the DOMException a failed IndexedDB request rejects with
DbError == "db request failed"
\* calling the missing property this.updateEncounter
NotAFunction == "this.updateEncounter is not a function"
NoArg == <<>>

VARIABLES
  dbInstances,      \* object store 'instances'  : id -> GameInstance
  dbCharacters,     \* object store 'characters' : id -> Character
  dbEncounters,     \* object store 'encounters' : id -> Encounter
  instances,        \* GameState.instances  (cached Map)
  characters,       \* GameState.characters (cached Map)
  encounters,       \* GameState.encounters (cached Map)
  loading,          \* GameState.loading
  error,            \* GameState.error (Undefined models null)
  uuid,             \* how many ids crypto.randomUUID() has issued per table
  stamp,            \* history: number of participants ever seated
  lastCall,         \* history: the store method called last and what its
                    \* caller got, Ok or the message of the error thrown
  lastArg,          \* history: the argument of that call where a property
                    \* speaks of it, NoArg otherwise
  pending           \* the calls that have started and not yet settled, each
                    \* at its next await

vars == <<dbInstances, dbCharacters, dbEncounters, instances, characters,
          encounters, loading, error, uuid, stamp, lastCall, lastArg,
          pending>>

tables == <<dbInstances, dbCharacters, dbEncounters, instances, characters,
            encounters>>

(***************************************************************************)
(* Helpers for tables and arrays.                                          *)
(***************************************************************************)
EmptyTable == [k \in {} |-> {}]

\* IDBObjectStore.put / Map.set
Put(t, k, v) == [x \in (DOMAIN t) \cup {k} |-> IF x = k THEN v ELSE t[x]]

SetMax(S) == CHOOSE m \in S : \A x \in S : x <= m


\* Array.prototype.indexOf / findIndex: 0-based, -1 when nothing matches
IndexOf(seq, v) ==
  IF \E k \in 1..Len(seq) : seq[k] = v
  THEN (CHOOSE k \in 1..Len(seq) : seq[k] = v /\ \A j \in 1..(k - 1) : seq[j] # v) - 1
  ELSE -1

\* seq[i] with the 0-based index of JS
At(seq, i) == seq[i + 1]

(***************************************************************************)
(* Rosters.  A participant is {characterId, initiative}; seq is a history  *)
(* stamp (the order of seating), not a field of the program.               *)
(***************************************************************************)
Participant(characterId, initiative, seq) ==
  [characterId |-> characterId, initiative |-> initiative, seq |-> seq]

\* The step below for a sort that is not stable: x goes in front of its ties.
InsertByInitiativeUnstable(sorted, x) ==
  LET k == Cardinality({j \in 1..Len(sorted) : sorted[j].initiative > x.initiative})
  IN SubSeq(sorted, 1, k) \o <<x>> \o SubSeq(sorted, k + 1, Len(sorted))

\* One step of the stable sort: x goes behind every entry the comparator
\* (a, b) => b.initiative - a.initiative does not place after it.
InsertByInitiative(sorted, x) ==
  LET k == Cardinality({j \in 1..Len(sorted) : sorted[j].initiative >= x.initiative})
  IN SubSeq(sorted, 1, k) \o <<x>> \o SubSeq(sorted, k + 1, Len(sorted))

RECURSIVE SortByInitiative(_)
\* participants.sort((a, b) => b.initiative - a.initiative): descending,
\* stable (ECMAScript 2019).
SortByInitiative(ps) ==
  IF ps = <<>> THEN <<>>
  ELSE InsertByInitiative(SortByInitiative(SubSeq(ps, 1, Len(ps) - 1)), ps[Len(ps)])

RECURSIVE SortDesc(_)
\* [...set].sort((a, b) => b - a) on a set of numbers
SortDesc(S) ==
  IF S = {} THEN <<>>
  ELSE LET m == SetMax(S) IN <<m>> \o SortDesc(S \ {m})

\* [...new Set(participants.map((p) => p.initiative))].sort((a, b) => b - a)
InitiativesOf(ps) == SortDesc({ps[k].initiative : k \in 1..Len(ps)})

\* participants.some((p) => p.initiative === v)
SomeAt(ps, v) == \E k \in 1..Len(ps) : ps[k].initiative = v

(***************************************************************************)
(* Characters.                                                             *)
(***************************************************************************)
CharacterTypes == {"PC", "NPC", "Hazard", "Familiar", "Eidolon", "Companion"}

isRelatedCharacterType(type) == type \in {"Familiar", "Eidolon", "Companion"}

\* an optional number is <<>> when absent and <<n>> when present
NoTemp == <<>>

\* if (x) on an optional string: undefined and the empty string are falsy
Truthy(x) == x \notin {Undefined, ""}

\* The validator below, had it not compared current and max.
validateCharacterNoHPRule(character) ==
  IF isRelatedCharacterType(character.type) /\ ~Truthy(character.relatedCharacterId)
    THEN "must have a related character ID"
  ELSE IF ~isRelatedCharacterType(character.type) /\ Truthy(character.relatedCharacterId)
    THEN "cannot have a related character ID"
  ELSE IF character.type = "PC" /\ ~Truthy(character.discordId)
    THEN "PC must have a Discord ID"
  ELSE IF character.hp.temp # NoTemp /\ character.hp.temp[1] # 0 /\ character.hp.temp[1] < 0
    THEN "Temporary HP cannot be negative"
  ELSE Ok

\* The validator below, had it looked at the hit points first.
validateCharacterHPFirst(character) ==
  IF character.hp.current > character.hp.max
    THEN "Current HP cannot exceed max HP"
  ELSE IF isRelatedCharacterType(character.type) /\ ~Truthy(character.relatedCharacterId)
    THEN "must have a related character ID"
  ELSE IF ~isRelatedCharacterType(character.type) /\ Truthy(character.relatedCharacterId)
    THEN "cannot have a related character ID"
  ELSE IF character.type = "PC" /\ ~Truthy(character.discordId)
    THEN "PC must have a Discord ID"
  ELSE IF character.hp.temp # NoTemp /\ character.hp.temp[1] # 0 /\ character.hp.temp[1] < 0
    THEN "Temporary HP cannot be negative"
  ELSE Ok

\* validateCharacter: Ok, or the message of the ValidationError thrown
validateCharacter(character) ==
  IF isRelatedCharacterType(character.type) /\ ~Truthy(character.relatedCharacterId)
    THEN "must have a related character ID"
  ELSE IF ~isRelatedCharacterType(character.type) /\ Truthy(character.relatedCharacterId)
    THEN "cannot have a related character ID"
  ELSE IF character.type = "PC" /\ ~Truthy(character.discordId)
    THEN "PC must have a Discord ID"
  ELSE IF character.hp.current > character.hp.max
    THEN "Current HP cannot exceed max HP"
  ELSE IF character.hp.temp # NoTemp /\ character.hp.temp[1] # 0 /\ character.hp.temp[1] < 0
    THEN "Temporary HP cannot be negative"
  ELSE Ok

Returned(op, outcome) == [op |-> op, outcome |-> outcome]

\* catch (error) { update(loading: false, error: error.message); throw error }
Caught(outcome) ==
  /\ loading' = FALSE
  /\ error' = outcome
  /\ UNCHANGED <<tables, uuid, stamp>>

\* IDBObjectStore.put on a store with keyPath 'id'
DbPut(t, v) == Put(t, v.id, v)

(***************************************************************************)
(* Instances and characters (the part the encounter operations rely on).   *)
(***************************************************************************)
\* createInstance: a new instance is active and gets a fresh id
createInstance(instanceData, fail) ==
  LET outcome == IF fail = "addInstance" THEN DbError ELSE Ok
      newInstance == [id |-> InstIdPool[uuid.inst + 1], status |-> "active",
                      tags |-> instanceData.tags]
  IN /\ uuid.inst < Len(InstIdPool)
     /\ lastCall' = Returned("createInstance", outcome)
     /\ IF outcome = Ok
        THEN /\ dbInstances' = DbPut(dbInstances, newInstance)
             /\ instances' = Put(instances, newInstance.id, newInstance)
             /\ uuid' = [uuid EXCEPT !.inst = @ + 1]
             /\ loading' = FALSE
             /\ UNCHANGED <<dbCharacters, dbEncounters, characters, encounters,
                            error, stamp>>
        ELSE Caught(outcome)

\* addCharacter, lines 117-141: what the try block throws, or Ok
addCharacterOutcome(instanceId, character, fail) ==
  IF validateCharacter(character) # Ok THEN validateCharacter(character)
  ELSE IF fail = "getInstance" THEN DbError
  ELSE IF instanceId \notin DOMAIN dbInstances THEN "Instance not found"
  ELSE IF Truthy(character.relatedCharacterId) /\ fail = "getCharacter" THEN DbError
  ELSE IF Truthy(character.relatedCharacterId)
          /\ character.relatedCharacterId \notin DOMAIN dbCharacters
    THEN "Related character not found"
  ELSE IF Truthy(character.relatedCharacterId)
          /\ dbCharacters[character.relatedCharacterId].instanceId # instanceId
    THEN "Related character must be in the same instance"
  ELSE IF fail = "addCharacter" THEN DbError
  ELSE Ok

\* addCharacter: { ...character, id, instanceId, lastUpdated } keeps every
\* property of the object passed in, also one the Character type does not
\* declare (sessionId), and overrides id and instanceId.
addCharacter(instanceId, character, fail) ==
  LET outcome == addCharacterOutcome(instanceId, character, fail)
      newCharacter == [id |-> CharIdPool[uuid.chr + 1],
                       instanceId |-> instanceId,
                       sessionId |-> character.sessionId,
                       type |-> character.type,
                       discordId |-> character.discordId,
                       relatedCharacterId |-> character.relatedCharacterId,
                       hp |-> character.hp,
                       ac |-> character.ac]
  IN /\ uuid.chr < Len(CharIdPool)
     /\ lastCall' = Returned("addCharacter", outcome)
     /\ IF outcome = Ok
        THEN /\ dbCharacters' = DbPut(dbCharacters, newCharacter)
             /\ characters' = Put(characters, newCharacter.id, newCharacter)
             /\ uuid' = [uuid EXCEPT !.chr = @ + 1]
             /\ loading' = FALSE
             /\ UNCHANGED <<dbInstances, dbEncounters, instances, encounters,
                            error, stamp>>
        ELSE Caught(outcome)

\* Map.delete / IDBObjectStore.delete: a key that is not there is no error
Delete(t, k) == [x \in (DOMAIN t) \ {k} |-> t[x]]

\* The cascade below, had it left the characters alone.
deleteInstanceCharactersNone(id) == dbCharacters

\* db.deleteInstance, db.ts lines 164-170: the characters the instanceId
\* index returns for id are deleted, in the transaction that deletes the
\* instance
deleteInstanceCharacters(id) ==
  [c \in {x \in DOMAIN dbCharacters : dbCharacters[x].instanceId # id} |->
     dbCharacters[c]]

\* deleteInstance below, had it also dropped the encounters of the instance.
deleteInstanceWithEncounters(instanceId, fail) ==
  LET outcome == IF fail = "deleteInstance" THEN DbError ELSE Ok
      kept(t) == [e \in {x \in DOMAIN t : t[x].sessionId # instanceId} |-> t[e]]
  IN /\ lastCall' = Returned("deleteInstance", outcome)
     /\ IF outcome = Ok
        THEN /\ dbInstances' = Delete(dbInstances, instanceId)
             /\ dbCharacters' = deleteInstanceCharacters(instanceId)
             /\ dbEncounters' = kept(dbEncounters)
             /\ instances' = Delete(instances, instanceId)
             /\ encounters' = kept(encounters)
             /\ loading' = FALSE
             /\ UNCHANGED <<characters, error, uuid, stamp>>
        ELSE Caught(outcome)

deleteInstanceOutcome(instanceId, fail) ==
  IF fail = "deleteInstance" THEN DbError ELSE Ok

\* deleteInstance, lines 478-495: the cached instance goes; the cached
\* characters and the encounters are not touched
deleteInstance(instanceId, fail) ==
  LET outcome == deleteInstanceOutcome(instanceId, fail)
  IN /\ lastCall' = Returned("deleteInstance", outcome)
     /\ IF outcome = Ok
        THEN /\ dbInstances' = Delete(dbInstances, instanceId)
             /\ dbCharacters' = deleteInstanceCharacters(instanceId)
             /\ instances' = Delete(instances, instanceId)
             /\ loading' = FALSE
             /\ UNCHANGED <<dbEncounters, characters, encounters, error, uuid,
                            stamp>>
        ELSE Caught(outcome)

\* The spread below, had the properties of updates been dropped.
MergeKeepsCharacter(character, updates) == character

\* { ...character, ...updates }: a property of updates replaces the one of
\* character, whichever it is
Merge(character, updates) ==
  [f \in DOMAIN character |->
     IF f \in DOMAIN updates THEN updates[f] ELSE character[f]]

\* updateCharacter, lines 177-193: the checks made when the type changes
typeChangeOutcome(character, updates, updatedCharacter) ==
  IF "type" \in DOMAIN updates /\ updates.type # character.type
  THEN IF isRelatedCharacterType(updates.type)
          /\ ~Truthy(updatedCharacter.relatedCharacterId)
         THEN "must have a related character ID"
       ELSE IF ~isRelatedCharacterType(updates.type)
               /\ Truthy(updatedCharacter.relatedCharacterId)
         THEN "cannot have a related character ID"
       ELSE Ok
  ELSE Ok

\* The outcome below, had updateCharacter not validated the merged record.
updateCharacterOutcomeUnvalidated(id, updates, fail) ==
  IF fail = "getCharacter" THEN DbError
  ELSE IF id \notin DOMAIN dbCharacters THEN "Character not found"
  ELSE IF fail = "addCharacter" THEN DbError
  ELSE Ok

\* updateCharacter, lines 163-195: what the try block throws, or Ok
updateCharacterOutcome(id, updates, fail) ==
  IF fail = "getCharacter" THEN DbError
  ELSE IF id \notin DOMAIN dbCharacters THEN "Character not found"
  ELSE LET updatedCharacter == Merge(dbCharacters[id], updates)
       IN IF validateCharacter(updatedCharacter) # Ok
            THEN validateCharacter(updatedCharacter)
          ELSE IF typeChangeOutcome(dbCharacters[id], updates, updatedCharacter) # Ok
            THEN typeChangeOutcome(dbCharacters[id], updates, updatedCharacter)
          ELSE IF fail = "addCharacter" THEN DbError
          ELSE Ok

\* The handler below, had it written the merged record before validating.
updateCharacterWriteFirst(id, updates, fail) ==
  LET outcome == updateCharacterOutcome(id, updates, fail)
  IN IF outcome = Ok
     THEN /\ dbCharacters' = DbPut(dbCharacters, Merge(dbCharacters[id], updates))
          /\ characters' = Put(characters, id, Merge(dbCharacters[id], updates))
          /\ loading' = FALSE
          /\ UNCHANGED <<dbInstances, dbEncounters, instances, encounters,
                         error, uuid, stamp>>
     ELSE IF id \in DOMAIN dbCharacters
     THEN /\ dbCharacters' = DbPut(dbCharacters, Merge(dbCharacters[id], updates))
          /\ loading' = FALSE
          /\ error' = outcome
          /\ UNCHANGED <<dbInstances, dbEncounters, instances, characters,
                         encounters, uuid, stamp>>
     ELSE Caught(outcome)

\* updateCharacter: the merged record is put under its own id and cached
\* under the id passed in
updateCharacter(id, updates, fail) ==
  LET outcome == updateCharacterOutcome(id, updates, fail)
  IN IF outcome = Ok
     THEN \E updatedCharacter \in {Merge(dbCharacters[id], updates)} :
            /\ dbCharacters' = DbPut(dbCharacters, updatedCharacter)
            /\ characters' = Put(characters, id, updatedCharacter)
            /\ loading' = FALSE
            /\ UNCHANGED <<dbInstances, dbEncounters, instances, encounters,
                           error, uuid, stamp>>
     ELSE Caught(outcome)

\* The HP and AC methods read the character themselves, outside any try
\* block, and hand a whole hp object to updateCharacter: what the caller
\* gets when that first read fails or finds nothing, Ok otherwise.
readCharacterOutcome(id, fail) ==
  IF fail = "getCharacter (own)" THEN DbError
  ELSE IF id \notin DOMAIN dbCharacters THEN "Character not found"
  ELSE Ok

\* the method computes updates from the character it read and returns
\* this.updateCharacter(id, updates); a throw of the first read changes
\* nothing, not even loading and error
viaUpdateCharacter(op, id, updates, fail) ==
  LET outcome == readCharacterOutcome(id, fail)
  IN IF outcome = Ok
     THEN /\ lastCall' = Returned(op, updateCharacterOutcome(id, updates, fail))
          /\ updateCharacter(id, updates, fail)
     ELSE /\ lastCall' = Returned(op, outcome)
          /\ UNCHANGED <<tables, loading, error, uuid, stamp>>

Min(a, b) == IF a < b THEN a ELSE b
Max(a, b) == IF a > b THEN a ELSE b

\* setMaxHP, lines 242-249
setMaxHPUpdates(hp, maxHP) ==
  [hp |-> [hp EXCEPT !.max = maxHP, !.current = Min(hp.current, maxHP)]]

\* setCurrentHP, lines 263-268
setCurrentHPUpdates(hp, currentHP) ==
  [hp |-> [hp EXCEPT !.current = Min(Max(currentHP, 0), hp.max)]]

\* The updates below, had setTempHP passed the value on as it came.
setTempHPUpdatesUnclamped(hp, tempHP) ==
  [hp |-> [hp EXCEPT !.temp = <<tempHP>>]]

\* setTempHP, lines 282-287
setTempHPUpdates(hp, tempHP) ==
  [hp |-> [hp EXCEPT !.temp = <<Max(tempHP, 0)>>]]

\* The updates below, had damage gone to current HP first.
damageUpdatesCurrentFirst(hp, amount) ==
  LET temp == IF hp.temp = NoTemp THEN 0 ELSE hp.temp[1]
      newCurrent == IF amount > 0 THEN Max(hp.current - amount, 0) ELSE hp.current
  IN [hp |-> [hp EXCEPT !.current = newCurrent, !.temp = <<temp>>]]

\* damage, lines 301-328: const { current, temp = 0 } = character.hp
damageUpdates(hp, amount) ==
  LET current == hp.current
      temp == IF hp.temp = NoTemp THEN 0 ELSE hp.temp[1]
      newTemp == IF temp > 0
                 THEN (IF temp >= amount THEN temp - amount ELSE 0)
                 ELSE temp
      remainingDamage == IF temp > 0
                         THEN (IF temp >= amount THEN 0 ELSE amount - temp)
                         ELSE amount
      newCurrent == IF remainingDamage > 0
                    THEN Max(current - remainingDamage, 0)
                    ELSE current
  IN [hp |-> [hp EXCEPT !.current = newCurrent, !.temp = <<newTemp>>]]

\* The updates below, had heal given the amount to temporary HP as well.
healUpdatesRestoresTemp(hp, amount) ==
  [hp |-> [hp EXCEPT !.current = Min(hp.current + amount, hp.max),
                     !.temp = IF @ = NoTemp THEN @ ELSE <<@[1] + Max(amount, 0)>>]]

\* heal, lines 342-347
healUpdates(hp, amount) ==
  [hp |-> [hp EXCEPT !.current = Min(hp.current + amount, hp.max)]]

HpOf(id) == IF id \in DOMAIN dbCharacters THEN dbCharacters[id].hp
            ELSE [current |-> 0, max |-> 0, temp |-> NoTemp]

setMaxHP(id, maxHP, fail) ==
  viaUpdateCharacter("setMaxHP", id, setMaxHPUpdates(HpOf(id), maxHP), fail)

setCurrentHP(id, currentHP, fail) ==
  viaUpdateCharacter("setCurrentHP", id, setCurrentHPUpdates(HpOf(id), currentHP), fail)

setTempHP(id, tempHP, fail) ==
  viaUpdateCharacter("setTempHP", id, setTempHPUpdates(HpOf(id), tempHP), fail)

damage(id, amount, fail) ==
  viaUpdateCharacter("damage", id, damageUpdates(HpOf(id), amount), fail)

heal(id, amount, fail) ==
  viaUpdateCharacter("heal", id, healUpdates(HpOf(id), amount), fail)

\* setAC below, had it added the value to the stored armor class.
setACAdds(id, ac, fail) ==
  LET updates == [ac |-> IF id \in DOMAIN dbCharacters
                         THEN dbCharacters[id].ac + ac ELSE ac]
  IN /\ lastCall' = Returned("setAC", updateCharacterOutcome(id, updates, fail))
     /\ updateCharacter(id, updates, fail)

\* setAC, lines 357-359: no read of its own
setAC(id, ac, fail) ==
  /\ lastCall' = Returned("setAC", updateCharacterOutcome(id, [ac |-> ac], fail))
  /\ updateCharacter(id, [ac |-> ac], fail)

(***************************************************************************)
(* Deleting a character, loading the store, and the tags of an instance.   *)
(* A tag is a string, kept as the sequence of its characters.              *)
(***************************************************************************)
\* The handler below, had it dropped the cached character before the
\* database answered.
deleteCharacterCacheFirst(id, fail) ==
  /\ lastCall' = Returned("deleteCharacter", Ok)
  /\ characters' = Delete(characters, id)
  /\ loading' = FALSE
  /\ IF fail = "deleteCharacter"
     THEN /\ error' = DbError
          /\ UNCHANGED <<dbInstances, dbCharacters, dbEncounters, instances,
                         encounters, uuid, stamp>>
     ELSE /\ dbCharacters' = Delete(dbCharacters, id)
          /\ UNCHANGED <<dbInstances, dbEncounters, instances, encounters,
                         error, uuid, stamp>>

\* deleteCharacter, lines 212-228: the catch block records the error and
\* does not throw it again, so the promise resolves either way
deleteCharacter(id, fail) ==
  /\ lastCall' = Returned("deleteCharacter", Ok)
  /\ IF fail = "deleteCharacter"
     THEN Caught(DbError)
     ELSE /\ dbCharacters' = Delete(dbCharacters, id)
          /\ characters' = Delete(characters, id)
          /\ loading' = FALSE
          /\ UNCHANGED <<dbInstances, dbEncounters, instances, encounters,
                         error, uuid, stamp>>

\* init, lines 86-109: characters and instances are loaded (encounters are
\* not); the catch block records the error and does not throw it again
init(fail) ==
  /\ lastCall' = Returned("init", Ok)
  /\ IF fail \in {"init", "getAllCharacters", "getAllInstances"}
     THEN Caught(DbError)
     ELSE /\ characters' = dbCharacters
          /\ instances' = dbInstances
          /\ loading' = FALSE
          /\ UNCHANGED <<dbInstances, dbCharacters, dbEncounters, encounters,
                         error, uuid, stamp>>

\* String.prototype.trim on the characters used here: blanks at both ends go
RECURSIVE trimStart(_)
trimStart(tag) ==
  IF tag # <<>> /\ Head(tag) = " " THEN trimStart(Tail(tag)) ELSE tag

RECURSIVE trimEnd(_)
trimEnd(tag) ==
  IF tag # <<>> /\ tag[Len(tag)] = " "
  THEN trimEnd(SubSeq(tag, 1, Len(tag) - 1)) ELSE tag

trim(tag) == trimEnd(trimStart(tag))

\* String.prototype.toLowerCase on the characters used here
toLowerCase(tag) ==
  [i \in 1..Len(tag) |-> CASE tag[i] = "A" -> "a"
                           [] tag[i] = "B" -> "b"
                           [] OTHER -> tag[i]]

\* new Set(list): the first of equal strings stays, in insertion order
RECURSIVE SetOf(_)
SetOf(list) ==
  IF list = <<>> THEN <<>>
  ELSE LET front == SetOf(SubSeq(list, 1, Len(list) - 1))
           last == list[Len(list)]
       IN IF \E i \in 1..Len(front) : front[i] = last
          THEN front ELSE Append(front, last)

\* Array.prototype.sort without a comparator: by UTF-16 code units
CodeUnit(ch) ==
  CASE ch = " " -> 32 [] ch = "A" -> 65 [] ch = "B" -> 66
    [] ch = "a" -> 97 [] ch = "b" -> 98

RECURSIVE Before(_, _)
Before(x, y) ==
  IF x = <<>> THEN y # <<>>
  ELSE IF y = <<>> THEN FALSE
  ELSE IF Head(x) # Head(y) THEN CodeUnit(Head(x)) < CodeUnit(Head(y))
  ELSE Before(Tail(x), Tail(y))

RECURSIVE sort(_)
sort(list) ==
  IF list = <<>> THEN <<>>
  ELSE LET i == CHOOSE k \in 1..Len(list) :
                  \A j \in 1..Len(list) : ~Before(list[j], list[k])
       IN <<list[i]>> \o sort([j \in 1..(Len(list) - 1) |->
                                 IF j < i THEN list[j] ELSE list[j + 1]])

\* updateInstance, lines 424-433: what the try block throws, or Ok
updateInstanceOutcome(instanceId, fail) ==
  IF fail = "getInstance" THEN DbError
  ELSE IF instanceId \notin DOMAIN dbInstances THEN "Instance not found"
  ELSE IF fail = "addInstance" THEN DbError
  ELSE Ok

\* updateInstance: { ...instance, ...updates } is put under its own id and
\* cached under the id passed in; no property of updates is checked
updateInstance(instanceId, updates, fail) ==
  LET outcome == updateInstanceOutcome(instanceId, fail)
  IN IF outcome = Ok
     THEN \E updatedInstance \in {Merge(dbInstances[instanceId], updates)} :
            /\ dbInstances' = DbPut(dbInstances, updatedInstance)
            /\ instances' = Put(instances, instanceId, updatedInstance)
            /\ loading' = FALSE
            /\ UNCHANGED <<dbCharacters, dbEncounters, characters, encounters,
                           error, uuid, stamp>>
     ELSE Caught(outcome)

\* updateInstanceTags, lines 469-472: equal strings are dropped and the
\* rest sorted; the tags are neither trimmed nor lower-cased
updateInstanceTags(instanceId, tags, fail) ==
  LET normalizedTags == sort(SetOf(tags))
  IN updateInstance(instanceId, [tags |-> normalizedTags], fail)

\* addInstanceTag and removeInstanceTag, lines 501-502 and 532-533
instanceTagOutcome(instanceId, fail) ==
  IF fail = "getInstance" THEN DbError
  ELSE IF instanceId \notin DOMAIN dbInstances THEN "Session not found"
  ELSE IF fail = "addInstance" THEN DbError
  ELSE Ok

\* the write-back shared by addInstanceTag and removeInstanceTag
StoreInstanceTags(instanceId, tags, outcome) ==
  IF outcome = Ok
  THEN \E updatedInstance \in {[dbInstances[instanceId] EXCEPT !.tags = tags]} :
         /\ dbInstances' = DbPut(dbInstances, updatedInstance)
         /\ instances' = Put(instances, instanceId, updatedInstance)
         /\ loading' = FALSE
         /\ UNCHANGED <<dbCharacters, dbEncounters, characters, encounters,
                        error, uuid, stamp>>
  ELSE Caught(outcome)

\* addInstanceTag, lines 498-527: the trimmed, lower-cased tag joins the
\* Set of the stored tags
addInstanceTag(instanceId, tag, fail) ==
  LET outcome == instanceTagOutcome(instanceId, fail)
  IN /\ lastCall' = Returned("addInstanceTag", outcome)
     /\ StoreInstanceTags(instanceId,
          IF outcome = Ok
          THEN SetOf(Append(SetOf(dbInstances[instanceId].tags),
                            toLowerCase(trim(tag))))
          ELSE <<>>, outcome)

\* removeInstanceTag, lines 529-558: the trimmed, lower-cased tag leaves the
\* Set of the stored tags
removeInstanceTag(instanceId, tag, fail) ==
  LET outcome == instanceTagOutcome(instanceId, fail)
  IN /\ lastCall' = Returned("removeInstanceTag", outcome)
     /\ StoreInstanceTags(instanceId,
          IF outcome = Ok
          THEN SelectSeq(SetOf(dbInstances[instanceId].tags),
                         LAMBDA t : t # toLowerCase(trim(tag)))
          ELSE <<>>, outcome)

(***************************************************************************)
(* Encounters.                                                             *)
(***************************************************************************)
\* createEncounter: the owning instance is stored in the field sessionId
createEncounter(sessionId, fail) ==
  LET outcome == IF fail = "getInstance" THEN DbError
                 ELSE IF sessionId \notin DOMAIN dbInstances THEN "Session not found"
                 ELSE IF fail = "addEncounter" THEN DbError
                 ELSE Ok
      newEncounter == [id |-> EncIdPool[uuid.enc + 1],
                       sessionId |-> sessionId,
                       currentRound |-> 0,
                       currentInitiative |-> 0,
                       participants |-> <<>>]
  IN /\ uuid.enc < Len(EncIdPool)
     /\ lastCall' = Returned("createEncounter", outcome)
     /\ IF outcome = Ok
        THEN /\ dbEncounters' = DbPut(dbEncounters, newEncounter)
             /\ encounters' = Put(encounters, newEncounter.id, newEncounter)
             /\ uuid' = [uuid EXCEPT !.enc = @ + 1]
             /\ loading' = FALSE
             /\ UNCHANGED <<dbInstances, dbCharacters, instances, characters,
                            error, stamp>>
        ELSE Caught(outcome)

\* the write-back shared by the roster operations: db.addEncounter, then
\* encounters.set(encounterId, updatedEncounter) and loading: false
StoreEncounter(encounterId, updatedEncounter) ==
  /\ \E stored \in {updatedEncounter} :
       /\ dbEncounters' = DbPut(dbEncounters, stored)
       /\ encounters' = Put(encounters, encounterId, stored)
  /\ loading' = FALSE
  /\ UNCHANGED <<dbInstances, dbCharacters, instances, characters, error, uuid>>

\* addParticipant, lines 613-620: what the try block throws, or Ok
addParticipantOutcome(encounterId, characterId, fail) ==
  IF fail = "getEncounter" THEN DbError
  ELSE IF encounterId \notin DOMAIN dbEncounters THEN "Encounter not found"
  ELSE IF fail = "getCharacter" THEN DbError
  ELSE IF characterId \notin DOMAIN dbCharacters THEN "Character not found"
  ELSE IF dbCharacters[characterId].sessionId # dbEncounters[encounterId].sessionId
    THEN "Character must be from the same session"
  ELSE IF fail = "addEncounter" THEN DbError
  ELSE Ok

\* addParticipant, lines 622-629, had the new entry been put in front
addParticipantResultFront(encounter, characterId, initiative, seq) ==
  [encounter EXCEPT !.participants =
     SortByInitiative(<<Participant(characterId, initiative, seq)>> \o @)]

\* addParticipant, lines 622-629: append, then sort
addParticipantResult(encounter, characterId, initiative, seq) ==
  [encounter EXCEPT !.participants =
     SortByInitiative(Append(@, Participant(characterId, initiative, seq)))]

addParticipant(encounterId, characterId, initiative, fail) ==
  LET outcome == addParticipantOutcome(encounterId, characterId, fail)
  IN /\ stamp < MaxAdds
     /\ lastCall' = Returned("addParticipant", outcome)
     /\ IF outcome = Ok
        THEN /\ StoreEncounter(encounterId,
                  addParticipantResult(dbEncounters[encounterId], characterId,
                                       initiative, stamp + 1))
             /\ stamp' = stamp + 1
        ELSE Caught(outcome)

\* nextTurn, lines 656-675: the fields handed to this.updateEncounter
nextTurnUpdates(encounter) ==
  LET initiatives == InitiativesOf(encounter.participants)
      currentIndex == IndexOf(initiatives, encounter.currentInitiative)
  IN IF currentIndex = Len(initiatives) - 1 \/ currentIndex = -1
     THEN [currentRound |-> encounter.currentRound + 1,
           currentInitiative |-> At(initiatives, 0)]
     ELSE [currentRound |-> encounter.currentRound,
           currentInitiative |-> At(initiatives, currentIndex + 1)]

\* nextTurn without its roster check
nextTurnOutcomeUnchecked(encounterId, fail) ==
  IF fail = "getEncounter" THEN DbError
  ELSE IF encounterId \notin DOMAIN dbEncounters THEN "Encounter not found"
  ELSE NotAFunction

\* nextTurn, lines 651-675: what the method throws.  The object returned by
\* createGameStore has no property updateEncounter, so both branches end in
\* the TypeError of calling undefined; nothing ever returns normally.
nextTurnOutcome(encounterId, fail) ==
  IF fail = "getEncounter" THEN DbError
  ELSE IF encounterId \notin DOMAIN dbEncounters THEN "Encounter not found"
  ELSE IF Len(dbEncounters[encounterId].participants) = 0
    THEN "No participants in encounter"
  ELSE NotAFunction

\* nextTurn has no try/catch and no update(): the store state is untouched
nextTurn(encounterId, fail) ==
  /\ lastCall' = Returned("nextTurn", nextTurnOutcome(encounterId, fail))
  /\ UNCHANGED <<tables, loading, error, uuid, stamp>>

\* removeParticipant, lines 708-715, had the repair always gone back to 0
removeRepairReset(participants) == 0

\* removeParticipant, lines 708-715: the value currentInitiative moves to
removeRepair(participants) ==
  LET initiatives == InitiativesOf(participants)
  IN IF Len(initiatives) > 0 THEN At(initiatives, 0) ELSE 0

\* The result below, had removing a participant also opened a new round.
removeParticipantResultNewRound(encounter, characterId) ==
  LET participants ==
        SortByInitiative(SelectSeq(encounter.participants,
                                   LAMBDA p : p.characterId # characterId))
  IN [encounter EXCEPT
        !.participants = participants,
        !.currentRound = @ + 1,
        !.currentInitiative =
           IF ~SomeAt(participants, encounter.currentInitiative)
           THEN removeRepair(participants)
           ELSE @]

\* removeParticipant, lines 693-716
removeParticipantResult(encounter, characterId) ==
  LET participants ==
        SortByInitiative(SelectSeq(encounter.participants,
                                   LAMBDA p : p.characterId # characterId))
  IN [encounter EXCEPT
        !.participants = participants,
        !.currentInitiative =
           IF ~SomeAt(participants, encounter.currentInitiative)
           THEN removeRepair(participants)
           ELSE @]

removeParticipantOutcome(encounterId, fail) ==
  IF fail = "getEncounter" THEN DbError
  ELSE IF encounterId \notin DOMAIN dbEncounters THEN "Encounter not found"
  ELSE IF fail = "addEncounter" THEN DbError
  ELSE Ok

removeParticipant(encounterId, characterId, fail) ==
  LET outcome == removeParticipantOutcome(encounterId, fail)
  IN /\ lastCall' = Returned("removeParticipant", outcome)
     /\ IF outcome = Ok
        THEN /\ StoreEncounter(encounterId,
                  removeParticipantResult(dbEncounters[encounterId], characterId))
             /\ UNCHANGED stamp
        ELSE Caught(outcome)

\* participants.findIndex((p) => p.characterId === characterId)
participantIndexOf(participants, characterId) ==
  IndexOf([k \in 1..Len(participants) |-> participants[k].characterId], characterId)

\* updateParticipantInitiative, lines 780-788, had the repair been left out
updateRepairNone(participants, currentInitiative) == currentInitiative

\* updateParticipantInitiative, lines 780-788: the value currentInitiative
\* moves to, looked up in the roster as it is after the update
updateRepair(participants, currentInitiative) ==
  LET initiatives == InitiativesOf(participants)
      currentIndex == IndexOf(initiatives, currentInitiative)
  IN IF currentIndex = Len(initiatives) - 1 \/ currentIndex = -1
     THEN At(initiatives, 0)
     ELSE At(initiatives, currentIndex + 1)

\* updateParticipantInitiative, lines 762-789
updateParticipantInitiativeResult(encounter, characterId, newInitiative) ==
  LET participantIndex == participantIndexOf(encounter.participants, characterId)
      old == At(encounter.participants, participantIndex)
      participants ==
        SortByInitiative([encounter.participants EXCEPT ![participantIndex + 1] =
                            Participant(characterId, newInitiative, old.seq)])
  IN [encounter EXCEPT
        !.participants = participants,
        !.currentInitiative =
           IF /\ old.initiative = encounter.currentInitiative
              /\ ~SomeAt(participants, encounter.currentInitiative)
           THEN updateRepair(participants, encounter.currentInitiative)
           ELSE @]

updateParticipantInitiativeOutcome(encounterId, characterId, fail) ==
  IF fail = "getEncounter" THEN DbError
  ELSE IF encounterId \notin DOMAIN dbEncounters THEN "Encounter not found"
  ELSE IF participantIndexOf(dbEncounters[encounterId].participants, characterId) = -1
    THEN "Participant not found in encounter"
  ELSE IF fail = "addEncounter" THEN DbError
  ELSE Ok

updateParticipantInitiative(encounterId, characterId, newInitiative, fail) ==
  LET outcome == updateParticipantInitiativeOutcome(encounterId, characterId, fail)
  IN /\ lastCall' = Returned("updateParticipantInitiative", outcome)
     /\ IF outcome = Ok
        THEN /\ StoreEncounter(encounterId,
                  updateParticipantInitiativeResult(dbEncounters[encounterId],
                                                    characterId, newInitiative))
             /\ UNCHANGED stamp
        ELSE Caught(outcome)

\* The map below, had the first entry for a repeated id stayed.
updateMapFirstWins(updates) ==
  [c \in {updates[k].characterId : k \in 1..Len(updates)} |->
     updates[CHOOSE k \in 1..Len(updates) :
               /\ updates[k].characterId = c
               /\ \A j \in 1..(k - 1) : updates[j].characterId # c].initiative]

\* new Map(updates.map(u => [u.characterId, u.initiative])), lines 828-830:
\* of the entries that name the same character the last one stays
updateMap(updates) ==
  [c \in {updates[k].characterId : k \in 1..Len(updates)} |->
     updates[SetMax({k \in 1..Len(updates) : updates[k].characterId = c})].initiative]

\* bulkUpdateInitiatives, lines 832-843: map over the roster, then sort;
\* currentInitiative is copied from the encounter as read
bulkUpdateInitiativesResult(encounter, updates) ==
  LET map == updateMap(updates)
      ps == encounter.participants
  IN [encounter EXCEPT !.participants =
        SortByInitiative(
          [k \in 1..Len(ps) |->
             Participant(ps[k].characterId,
                         IF ps[k].characterId \in DOMAIN map
                         THEN map[ps[k].characterId]
                         ELSE ps[k].initiative,
                         ps[k].seq)])]

bulkUpdateInitiativesOutcome(encounterId, fail) ==
  IF fail = "getEncounter" THEN DbError
  ELSE IF encounterId \notin DOMAIN dbEncounters THEN "Encounter not found"
  ELSE IF fail = "addEncounter" THEN DbError
  ELSE Ok

bulkUpdateInitiatives(encounterId, updates, fail) ==
  LET outcome == bulkUpdateInitiativesOutcome(encounterId, fail)
  IN /\ lastCall' = Returned("bulkUpdateInitiatives", outcome)
     /\ IF outcome = Ok
        THEN /\ StoreEncounter(encounterId,
                  bulkUpdateInitiativesResult(dbEncounters[encounterId], updates))
             /\ UNCHANGED stamp
        ELSE Caught(outcome)

(***************************************************************************)
(* The encounter engine: instances, characters and encounters are created  *)
(* through the store, then the roster and turn operations run in any       *)
(* order.                                                                  *)
(***************************************************************************)
Init ==
  /\ dbInstances = EmptyTable
  /\ dbCharacters = EmptyTable
  /\ dbEncounters = EmptyTable
  /\ instances = EmptyTable
  /\ characters = EmptyTable
  /\ encounters = EmptyTable
  /\ loading = FALSE
  /\ error = Undefined
  /\ uuid = [inst |-> 0, chr |-> 0, enc |-> 0]
  /\ stamp = 0
  /\ lastCall = Returned("none", Ok)
  /\ lastArg = NoArg
  /\ pending = <<>>

\* the instance data and the character objects the callers pass in
InstanceInputs == {[tags |-> <<>>]}

CharacterInputs ==
  {[type |-> "NPC", discordId |-> Undefined, relatedCharacterId |-> Undefined,
    hp |-> [current |-> 1, max |-> 1, temp |-> NoTemp], ac |-> 10,
    sessionId |-> s] : s \in {Undefined} \cup InstIds}

\* updates lists: up to MaxUpdates entries {characterId, initiative}
\* the scores a bulk edit assigns
BulkInitVals == {0, 1}
UpdateEntries == [characterId : CharIds, initiative : BulkInitVals]
UpdateLists == UNION {[1..n -> UpdateEntries] : n \in 0..MaxUpdates}

\* Which db request of a call fails: none of them, or the one named.
NoFailure == {"none"}

\* a call that runs from start to end with no other call in between; arg
\* is what lastArg keeps of its argument
Observe(arg) == lastArg' = arg /\ UNCHANGED pending

DoCreateInstance(fails) ==
  \E d \in InstanceInputs, f \in fails :
    createInstance(d, f) /\ Observe(NoArg)

DoAddCharacter(fails) ==
  \E i \in InstIds, c \in CharacterInputs, f \in fails :
    addCharacter(i, c, f) /\ Observe(NoArg)

DoCreateEncounter(fails) ==
  \E i \in InstIds, f \in fails :
    createEncounter(i, f) /\ Observe(NoArg)

DoAddParticipant(fails) ==
  \E e \in EncIds, c \in CharIds, i \in InitVals, f \in fails :
    addParticipant(e, c, i, f) /\ Observe(NoArg)

DoNextTurn(fails) ==
  \E e \in EncIds, f \in fails :
    nextTurn(e, f) /\ Observe(NoArg)

DoRemoveParticipant(fails) ==
  \E e \in EncIds, c \in CharIds, f \in fails :
    removeParticipant(e, c, f) /\ Observe(NoArg)

DoUpdateParticipantInitiative(fails) ==
  \E e \in EncIds, c \in CharIds, i \in InitVals, f \in fails :
    updateParticipantInitiative(e, c, i, f) /\ Observe(NoArg)

DoBulkUpdateInitiatives(fails) ==
  \E e \in EncIds, u \in UpdateLists, f \in fails :
    bulkUpdateInitiatives(e, u, f) /\ Observe(NoArg)

\* Setting up: everything is created through the store, participants are
\* seated and turns are asked for.
Next ==
  \/ DoCreateInstance(NoFailure)
  \/ DoAddCharacter(NoFailure)
  \/ DoCreateEncounter(NoFailure)
  \/ DoAddParticipant(NoFailure)
  \/ DoNextTurn(NoFailure)

Spec == Init /\ [][Next]_vars

(***************************************************************************)
(* The roster operations, started where the set-up has created two         *)
(* instances, an encounter of the first one and two characters that carry  *)
(* that encounter's sessionId (one owned by each instance).                *)
(***************************************************************************)
SeatedCharacter(id, instanceId) ==
  [id |-> id, instanceId |-> instanceId, sessionId |-> "i1", type |-> "NPC",
   discordId |-> Undefined, relatedCharacterId |-> Undefined,
   hp |-> [current |-> 1, max |-> 1, temp |-> NoTemp], ac |-> 10]

SeatedInstances ==
  [i \in {"i1", "i2"} |-> [id |-> i, status |-> "active", tags |-> <<>>]]

SeatedCharacters ==
  [c \in {"c1", "c2"} |-> SeatedCharacter(c, IF c = "c1" THEN "i1" ELSE "i2")]

SeatedEncounters ==
  [e \in {"e1"} |-> [id |-> e, sessionId |-> "i1", currentRound |-> 0,
                     currentInitiative |-> 0, participants |-> <<>>]]

InitSeated ==
  /\ dbInstances = SeatedInstances
  /\ dbCharacters = SeatedCharacters
  /\ dbEncounters = SeatedEncounters
  /\ instances = SeatedInstances
  /\ characters = SeatedCharacters
  /\ encounters = SeatedEncounters
  /\ loading = FALSE
  /\ error = Undefined
  /\ uuid = [inst |-> 2, chr |-> 2, enc |-> 1]
  /\ stamp = 0
  /\ lastCall = Returned("none", Ok)
  /\ lastArg = NoArg
  /\ pending = <<>>

NextRoster ==
  \/ DoAddParticipant(NoFailure)
  \/ DoNextTurn(NoFailure)
  \/ DoRemoveParticipant(NoFailure)
  \/ DoUpdateParticipantInitiative(NoFailure)
  \/ DoBulkUpdateInitiatives(NoFailure)

SpecRoster == InitSeated /\ [][NextRoster]_vars

(***************************************************************************)
(* Vocabulary of the properties.                                           *)
(***************************************************************************)
Roster(e) == dbEncounters[e].participants

InitiativeSet(ps) == {ps[k].initiative : k \in 1..Len(ps)}

\* the entries of ps that do not belong to character c, in roster order
Without(ps, c) == SelectSeq(ps, LAMBDA p : p.characterId # c)

\* the distinct initiative values of a roster, highest first
Distinct(ps) == SortDesc(InitiativeSet(ps))

Stamps(ps) == {ps[k].seq : k \in 1..Len(ps)}

PosOf(ps, q) == CHOOSE k \in 1..Len(ps) : ps[k].seq = q

\* currentInitiative is 0 or the initiative of a seated participant
Held(encounter) ==
  \/ encounter.currentInitiative = 0
  \/ encounter.currentInitiative \in InitiativeSet(encounter.participants)

\* of two participants with equal initiative the one seated earlier is first
TiesByInsertion(ps) ==
  \A i, j \in 1..Len(ps) :
    (i < j /\ ps[i].initiative = ps[j].initiative) => ps[i].seq < ps[j].seq

\* C1: nextTurn on a non-empty roster, D being its distinct initiatives in
\* descending order: when currentInitiative is the last element of D or not
\* in D, round grows by 1 and currentInitiative becomes the first element of
\* D; otherwise round stays and currentInitiative becomes the element of D
\* right after the current one.
C1_NextTurnAdvances ==
  [][\A e \in EncIds :
       ( /\ e \in DOMAIN dbEncounters
         /\ Roster(e) # <<>>
         /\ nextTurn(e, "none") ) =>
         LET old == dbEncounters[e]
             new == dbEncounters'[e]
             D == Distinct(old.participants)
             at == IndexOf(D, old.currentInitiative)
         IN IF at = -1 \/ at = Len(D) - 1
            THEN /\ new.currentRound = old.currentRound + 1
                 /\ new.currentInitiative = D[1]
            ELSE /\ new.currentRound = old.currentRound
                 /\ new.currentInitiative = D[at + 2]
    ]_vars

\* C2: a fresh encounter (round 0, currentInitiative 0) with a non-empty
\* roster reaches round 1 at the highest initiative with its first nextTurn;
\* from there each nextTurn steps to the next lower distinct value in the
\* same round, and the nextTurn after the lowest value opens the next round
\* at the highest value.
C2_FreshEncounterRoundTrip ==
  [][\A e \in EncIds :
       ( /\ e \in DOMAIN dbEncounters
         /\ Roster(e) # <<>>
         /\ nextTurn(e, "none") ) =>
         LET old == dbEncounters[e]
             new == dbEncounters'[e]
             values == InitiativeSet(old.participants)
             highest == SetMax(values)
             below == {v \in values : v < old.currentInitiative}
         IN /\ (old.currentRound = 0 /\ old.currentInitiative = 0) =>
                 (new.currentRound = 1 /\ new.currentInitiative = highest)
            /\ (old.currentRound >= 1 /\ old.currentInitiative \in values
                  /\ below # {}) =>
                 ( /\ new.currentRound = old.currentRound
                   /\ new.currentInitiative = SetMax(below) )
            /\ (old.currentRound >= 1 /\ old.currentInitiative \in values
                  /\ below = {}) =>
                 ( /\ new.currentRound = old.currentRound + 1
                   /\ new.currentInitiative = highest )
    ]_vars

\* C3 as claimed: in every reachable state currentInitiative is 0 or the
\* initiative of a participant of the roster.
C3_CurrentIsZeroOrHeld ==
  \A e \in DOMAIN dbEncounters : Held(dbEncounters[e])

\* C3: currentInitiative is 0 or the initiative of a participant of the
\* roster when the encounter is created, and addParticipant,
\* removeParticipant, updateParticipantInitiative and nextTurn keep it so;
\* only bulkUpdateInitiatives, which repairs nothing, can leave it at a
\* value no participant holds.
C3_OnlyBulkUnseatsCurrent ==
  [][\A e \in DOMAIN dbEncounters :
       (Held(dbEncounters[e]) /\ ~Held(dbEncounters'[e])) =>
         lastCall' = Returned("bulkUpdateInitiatives", Ok)
    ]_vars

\* C3 witness: updateParticipantInitiative has moved the only holder of a
\* non-zero currentInitiative away and currentInitiative is held again.
C3_Witness ==
  \E e \in DOMAIN dbEncounters :
    /\ lastCall = Returned("updateParticipantInitiative", Ok)
    /\ Len(Roster(e)) = 2
    /\ dbEncounters[e].currentInitiative # 0
    /\ dbEncounters[e].currentInitiative = Roster(e)[1].initiative
    /\ Roster(e)[2].initiative < 0
    /\ Roster(e)[2].seq < Roster(e)[1].seq

\* C4: after every operation the stored roster is in non-increasing order
\* of initiative, two participants with equal initiative that were both in
\* the roster before the operation keep their relative order, and a newly
\* added participant stands behind the participants it ties with.
C4_SortedAndStable ==
  [][\A e \in DOMAIN dbEncounters :
       LET old == Roster(e)
           new == dbEncounters'[e].participants
       IN /\ \A i, j \in 1..Len(new) :
               i < j => new[i].initiative >= new[j].initiative
          /\ \A i, j \in 1..Len(new) :
               (i < j /\ new[i].initiative = new[j].initiative) =>
                 /\ new[i].seq \in Stamps(old)
                 /\ (new[j].seq \in Stamps(old) =>
                       PosOf(old, new[i].seq) < PosOf(old, new[j].seq))
    ]_vars

\* C4 witness: bulkUpdateInitiatives has made two participants tie and the
\* one seated later stands first, as it did before the call.
C4_Witness ==
  \E e \in DOMAIN dbEncounters :
    /\ lastCall = Returned("bulkUpdateInitiatives", Ok)
    /\ Len(Roster(e)) = 2
    /\ Roster(e)[1].initiative = Roster(e)[2].initiative
    /\ Roster(e)[1].seq > Roster(e)[2].seq

\* C5 as claimed: in every reachable roster, of two participants with
\* equal initiative the one added earlier stands first.
C5_TiesInInsertionOrder ==
  \A e \in DOMAIN dbEncounters : TiesByInsertion(Roster(e))

\* C5: ties are in insertion order as long as addParticipant and
\* removeParticipant build the roster; updateParticipantInitiative and
\* bulkUpdateInitiatives are the only operations after which a participant
\* can stand before an equal-initiative participant added earlier, and the
\* participants they tie keep the order the roster had before the call.
C5_OnlyUpdatesReorderTies ==
  [][\A e \in DOMAIN dbEncounters :
       LET old == Roster(e)
           new == dbEncounters'[e].participants
       IN /\ (TiesByInsertion(old) /\ ~TiesByInsertion(new)) =>
               \/ lastCall' = Returned("updateParticipantInitiative", Ok)
               \/ lastCall' = Returned("bulkUpdateInitiatives", Ok)
          /\ (Stamps(new) = Stamps(old)) =>
               \A i, j \in 1..Len(new) :
                 (i < j /\ new[i].initiative = new[j].initiative) =>
                    PosOf(old, new[i].seq) < PosOf(old, new[j].seq)
    ]_vars

\* C5 witness: addParticipant has seated a participant that ties with one
\* seated before, and it stands behind.
C5_Witness ==
  \E e \in DOMAIN dbEncounters :
    /\ lastCall = Returned("addParticipant", Ok)
    /\ Len(Roster(e)) = 2
    /\ Roster(e)[1].initiative = Roster(e)[2].initiative
    /\ Roster(e)[1].seq < Roster(e)[2].seq

\* C6: removeParticipant(characterId) removes the participant's entries and
\* keeps the others; when an entry it removed stood at currentInitiative and
\* no remaining participant has that initiative, currentInitiative becomes
\* the highest remaining initiative, or 0 when the roster is now empty; the
\* round does not change.
C6_RemoveRepairsCurrent ==
  [][\A e \in EncIds, c \in CharIds :
       (e \in DOMAIN dbEncounters /\ removeParticipant(e, c, "none")) =>
         LET old == dbEncounters[e]
             new == dbEncounters'[e]
             rest == Without(old.participants, c)
         IN /\ new.participants = rest
            /\ encounters'[e] = new
            /\ new.currentRound = old.currentRound
            /\ ( /\ \E k \in 1..Len(old.participants) :
                      /\ old.participants[k].characterId = c
                      /\ old.participants[k].initiative = old.currentInitiative
                 /\ old.currentInitiative \notin InitiativeSet(rest) )
               => new.currentInitiative =
                    IF rest = <<>> THEN 0 ELSE SetMax(InitiativeSet(rest))
    ]_vars

\* C6 witness: removeParticipant has taken one of two participants away
\* and currentInitiative sits at the initiative of the one that remains.
C6_Witness ==
  \E e \in DOMAIN dbEncounters :
    /\ lastCall = Returned("removeParticipant", Ok)
    /\ stamp = 2
    /\ Len(Roster(e)) = 1
    /\ dbEncounters[e].currentInitiative = Roster(e)[1].initiative
    /\ dbEncounters[e].currentInitiative # 0

\* C7: when updateParticipantInitiative moves the only holder of
\* currentInitiative away, currentInitiative becomes the largest initiative
\* of the updated roster below the old value, or the lowest initiative of
\* the updated roster when none is below; the round does not change.
C7_UpdateRepairsToNextLower ==
  [][\A e \in EncIds, c \in CharIds, i \in InitVals :
       ( /\ e \in DOMAIN dbEncounters
         /\ updateParticipantInitiative(e, c, i, "none")
         /\ lastCall'.outcome = Ok ) =>
         LET old == dbEncounters[e]
             new == dbEncounters'[e]
             was == At(old.participants, participantIndexOf(old.participants, c))
             values == InitiativeSet(new.participants)
             below == {v \in values : v < old.currentInitiative}
         IN /\ new.currentRound = old.currentRound
            /\ (was.initiative = old.currentInitiative
                  /\ old.currentInitiative \notin values) =>
                 new.currentInitiative =
                   IF below # {} THEN SetMax(below)
                   ELSE CHOOSE v \in values : \A w \in values : v <= w
    ]_vars

\* C8: addParticipant fails and writes nothing, neither to persistence nor
\* to the cached encounters, when the encounter does not exist, the
\* character does not exist, or the character's owning instance is not the
\* encounter's.
C8_AddParticipantRejects ==
  [][\A e \in EncIds, c \in CharIds, i \in InitVals :
       ( /\ addParticipant(e, c, i, "none")
         /\ \/ e \notin DOMAIN dbEncounters
            \/ c \notin DOMAIN dbCharacters
            \/ dbCharacters[c].instanceId # dbEncounters[e].sessionId ) =>
         /\ lastCall'.outcome # Ok
         /\ dbEncounters' = dbEncounters
         /\ encounters' = encounters
    ]_vars

\* C9: for an encounter and a character of the same instance addParticipant
\* succeeds: the roster gains exactly the entry {characterId, initiative},
\* keeps every entry it had, and round and currentInitiative do not change.
C9_AddParticipantSeats ==
  [][\A e \in EncIds, c \in CharIds, i \in InitVals :
       ( /\ addParticipant(e, c, i, "none")
         /\ e \in DOMAIN dbEncounters
         /\ c \in DOMAIN dbCharacters
         /\ dbCharacters[c].instanceId = dbEncounters[e].sessionId ) =>
         LET old == dbEncounters[e]
             new == dbEncounters'[e]
         IN /\ lastCall'.outcome = Ok
            /\ Len(new.participants) = Len(old.participants) + 1
            /\ \A k \in 1..Len(old.participants) :
                 \E n \in 1..Len(new.participants) :
                   new.participants[n] = old.participants[k]
            /\ \E n \in 1..Len(new.participants) :
                 /\ new.participants[n].seq \notin Stamps(old.participants)
                 /\ new.participants[n].characterId = c
                 /\ new.participants[n].initiative = i
            /\ new.currentRound = old.currentRound
            /\ new.currentInitiative = old.currentInitiative
            /\ encounters'[e] = new
    ]_vars

\* C10: nextTurn on an encounter with an empty roster fails with the
\* empty-roster error and leaves the encounter as it was, in persistence
\* and in the cache.
C10_NextTurnEmptyRoster ==
  [][\A e \in EncIds :
       ( /\ e \in DOMAIN dbEncounters
         /\ Roster(e) = <<>>
         /\ nextTurn(e, "none") ) =>
         /\ lastCall'.outcome = "No participants in encounter"
         /\ dbEncounters' = dbEncounters
         /\ encounters' = encounters
    ]_vars

\* C10 witness: nextTurn has just been refused on an encounter that exists
\* and has nobody seated.
C10_Witness ==
  /\ lastCall = Returned("nextTurn", "No participants in encounter")
  /\ \E e \in DOMAIN dbEncounters : Roster(e) = <<>> /\ e \in DOMAIN encounters

(***************************************************************************)
(* Bulk edits observed: the roster is built and thinned, and every         *)
(* bulkUpdateInitiatives call leaves in lastArg what its updates list gave *)
(* each character it names: the initiative of the first and of the last    *)
(* entry for that id.                                                      *)
(***************************************************************************)
EntriesFor(u, c) == {k \in 1..Len(u) : u[k].characterId = c}

GivenBy(u) ==
  [c \in {u[k].characterId : k \in 1..Len(u)} |->
     [first |-> u[0 - SetMax({0 - k : k \in EntriesFor(u, c)})].initiative,
      last |-> u[SetMax(EntriesFor(u, c))].initiative]]

ObservedBulkUpdateInitiatives ==
  \E e \in EncIds, u \in UpdateLists :
    bulkUpdateInitiatives(e, u, "none") /\ Observe(GivenBy(u))

NextBulk ==
  \/ DoAddParticipant(NoFailure)
  \/ DoRemoveParticipant(NoFailure)
  \/ ObservedBulkUpdateInitiatives

SpecBulk == InitSeated /\ [][NextBulk]_vars

\* C11: bulkUpdateInitiatives(updates) gives every participant whose
\* characterId appears in updates the initiative of the last entry for that
\* id, leaves the other participants' initiatives and the membership of the
\* roster unchanged, leaves the roster sorted, and leaves currentRound and
\* currentInitiative unchanged.
C11_BulkUpdateFrame ==
  [][\A e \in DOMAIN dbEncounters :
       lastCall' = Returned("bulkUpdateInitiatives", Ok) =>
         LET old == Roster(e)
             new == dbEncounters'[e].participants
             given == lastArg'
         IN /\ Len(new) = Len(old)
            /\ Stamps(new) = Stamps(old)
            /\ \A k \in 1..Len(old) :
                 LET p == old[k]
                     q == new[PosOf(new, p.seq)]
                 IN /\ q.characterId = p.characterId
                    /\ q.initiative = IF p.characterId \in DOMAIN given
                                      THEN given[p.characterId].last
                                      ELSE p.initiative
            /\ \A i, j \in 1..Len(new) :
                 i < j => new[i].initiative >= new[j].initiative
            /\ dbEncounters'[e].currentRound = dbEncounters[e].currentRound
            /\ dbEncounters'[e].currentInitiative =
                 dbEncounters[e].currentInitiative
            /\ encounters'[e] = dbEncounters'[e]
    ]_vars

\* C11 witness: a bulk edit named one seated character twice with different
\* scores and left the other seated character out; the first holds the
\* later score, the second kept its own, and currentInitiative is an
\* initiative set by an earlier repair.
C11_Witness ==
  \E e \in DOMAIN dbEncounters :
    /\ lastCall = Returned("bulkUpdateInitiatives", Ok)
    /\ Len(Roster(e)) = 2
    /\ \E k \in 1..2 :
         LET c == Roster(e)[k].characterId
         IN /\ c \in DOMAIN lastArg
            /\ lastArg[c].first # lastArg[c].last
            /\ Roster(e)[k].initiative = lastArg[c].last
            /\ Roster(e)[3 - k].characterId \notin DOMAIN lastArg
    /\ dbEncounters[e].currentInitiative # 0

(***************************************************************************)
(* The validator on its own: a candidate is drawn, validateCharacter is    *)
(* applied to it, and lastCall holds what it threw.                        *)
(***************************************************************************)
OptionalStrings(ids) == {Undefined, ""} \cup ids

Candidates ==
  [type : CharacterTypes,
   discordId : OptionalStrings({"d1"}),
   relatedCharacterId : OptionalStrings({"c1"}),
   hp : [current : {0, 1, 2}, max : {1}, temp : {NoTemp, <<-1>>, <<0>>, <<1>>}],
   ac : {10},
   sessionId : {Undefined}]

InitValidator ==
  /\ dbInstances = EmptyTable
  /\ dbCharacters = EmptyTable
  /\ dbEncounters = EmptyTable
  /\ instances = EmptyTable
  /\ characters = EmptyTable
  /\ encounters = EmptyTable
  /\ loading = FALSE
  /\ error = Undefined
  /\ uuid = [inst |-> 0, chr |-> 0, enc |-> 0]
  /\ stamp = 0
  /\ lastCall = Returned("none", Ok)
  /\ lastArg \in Candidates
  /\ pending = <<>>

ApplyValidateCharacter ==
  /\ lastCall = Returned("none", Ok)
  /\ lastCall' = Returned("validateCharacter", validateCharacter(lastArg))
  /\ UNCHANGED <<tables, loading, error, uuid, stamp, lastArg, pending>>

NextValidator == ApplyValidateCharacter

SpecValidator == InitValidator /\ [][NextValidator]_vars

\* an optional id is there: the property is set and is not the empty string
HasId(x) == x # Undefined /\ x # ""

\* the five rules, each true of a candidate that breaks it
BreaksRule(n, c) ==
  CASE n = 1 -> c.type \in {"Familiar", "Eidolon", "Companion"}
                /\ ~HasId(c.relatedCharacterId)
    [] n = 2 -> c.type \notin {"Familiar", "Eidolon", "Companion"}
                /\ HasId(c.relatedCharacterId)
    [] n = 3 -> c.type = "PC" /\ ~HasId(c.discordId)
    [] n = 4 -> c.hp.current > c.hp.max
    [] n = 5 -> c.hp.temp # NoTemp /\ c.hp.temp[1] < 0

RuleMessage(n) ==
  CASE n = 1 -> "must have a related character ID"
    [] n = 2 -> "cannot have a related character ID"
    [] n = 3 -> "PC must have a Discord ID"
    [] n = 4 -> "Current HP cannot exceed max HP"
    [] n = 5 -> "Temporary HP cannot be negative"

\* C12: the validator reports the first rule, in the order 1..5, that the
\* candidate breaks, and accepts a candidate that breaks none; so a Familiar
\* without related-character id and an NPC with one are rejected whatever
\* the other fields are.
C12_ValidatorFirstFailure ==
  lastCall.op = "validateCharacter" =>
    LET broken == {n \in 1..5 : BreaksRule(n, lastArg)}
    IN /\ (broken = {}) <=> (lastCall.outcome = Ok)
       /\ broken # {} =>
            \E n \in broken :
              /\ \A m \in broken : n <= m
              /\ lastCall.outcome = RuleMessage(n)
       /\ (lastArg.type = "Familiar" /\ ~HasId(lastArg.relatedCharacterId)) =>
            lastCall.outcome = RuleMessage(1)
       /\ (lastArg.type = "NPC" /\ HasId(lastArg.relatedCharacterId)) =>
            lastCall.outcome = RuleMessage(2)

\* C12 witness: a PC without player identifier whose current HP exceeds its
\* max and whose temporary HP is negative was rejected for the identifier.
C12_Witness ==
  /\ lastCall = Returned("validateCharacter", "PC must have a Discord ID")
  /\ lastArg.type = "PC"
  /\ lastArg.hp.current > lastArg.hp.max
  /\ lastArg.hp.temp = <<-1>>

(***************************************************************************)
(* The HP engine: one character is created and its hit points are set,     *)
(* damaged and healed.  lastArg holds the character id and the number (or  *)
(* hp object) passed to the last call.                                     *)
(***************************************************************************)
MaxHP == 2              \* stored hit points stay within -MaxHP..MaxHP

\* the numbers callers pass to the HP methods
HPVals == {-1, 1, 2}

\* the hp objects callers pass to addCharacter and updateCharacter
HPInputs ==
  {[current |-> 1, max |-> 2, temp |-> NoTemp],
   [current |-> -1, max |-> 1, temp |-> <<1>>],
   [current |-> 2, max |-> 1, temp |-> NoTemp],
   [current |-> 1, max |-> 1, temp |-> <<-1>>]}

HPCharacter(hp) ==
  [type |-> "NPC", discordId |-> Undefined, relatedCharacterId |-> Undefined,
   hp |-> hp, ac |-> 10, sessionId |-> Undefined]

NoCall == [id |-> Undefined, value |-> 0]

Called(id, value) == [id |-> id, value |-> value]

WithinMaxHP(table) ==
  \A c \in DOMAIN table :
    /\ table[c].hp.current >= 0 - MaxHP
    /\ table[c].hp.temp # NoTemp => table[c].hp.temp[1] <= MaxHP

\* c1 was created and deleted before; the next character is c2
InitHP ==
  /\ dbInstances = SeatedInstances
  /\ dbCharacters = EmptyTable
  /\ dbEncounters = EmptyTable
  /\ instances = SeatedInstances
  /\ characters = EmptyTable
  /\ encounters = EmptyTable
  /\ loading = FALSE
  /\ error = Undefined
  /\ uuid = [inst |-> 2, chr |-> 1, enc |-> 0]
  /\ stamp = 0
  /\ lastCall = Returned("none", Ok)
  /\ lastArg = NoCall
  /\ pending = <<>>

HPAddCharacter ==
  \E h \in HPInputs :
    addCharacter("i1", HPCharacter(h), "none") /\ Observe(Called(Undefined, h))

HPUpdateCharacter ==
  \E id \in CharIds, h \in HPInputs :
    /\ lastCall' = Returned("updateCharacter",
                            updateCharacterOutcome(id, [hp |-> h], "none"))
    /\ updateCharacter(id, [hp |-> h], "none")
    /\ Observe(Called(id, h))

HPSetMaxHP ==
  \E id \in CharIds, v \in HPVals :
    setMaxHP(id, v, "none") /\ Observe(Called(id, v))

HPSetCurrentHP ==
  \E id \in CharIds, v \in HPVals :
    setCurrentHP(id, v, "none") /\ Observe(Called(id, v))

HPSetTempHP ==
  \E id \in CharIds, v \in HPVals :
    setTempHP(id, v, "none") /\ Observe(Called(id, v))

HPDamage ==
  \E id \in CharIds, v \in HPVals :
    damage(id, v, "none") /\ Observe(Called(id, v)) /\ WithinMaxHP(dbCharacters')

HPHeal ==
  \E id \in CharIds, v \in HPVals :
    heal(id, v, "none") /\ Observe(Called(id, v)) /\ WithinMaxHP(dbCharacters')

NextHP ==
  \/ HPAddCharacter
  \/ HPUpdateCharacter
  \/ HPSetMaxHP
  \/ HPSetCurrentHP
  \/ HPSetTempHP
  \/ HPDamage
  \/ HPHeal

SpecHP == InitHP /\ [][NextHP]_vars

(***************************************************************************)
(* The character table: characters of every kind are added to instance i1  *)
(* and edited; lastArg holds the id and the object passed to the call.     *)
(***************************************************************************)
KindCandidates ==
  [type : {"PC", "NPC", "Familiar"},
   discordId : {Undefined, "d1"},
   relatedCharacterId : {Undefined, "c1"},
   hp : {[current |-> 1, max |-> 1, temp |-> NoTemp],
         [current |-> 2, max |-> 1, temp |-> NoTemp]},
   ac : {10},
   sessionId : {Undefined}]

KindUpdates ==
  [type : {"PC", "NPC", "Familiar"}]
    \cup [relatedCharacterId : {Undefined, "c1"}]
    \cup [discordId : {Undefined, "d1"}]
    \cup [type : {"PC", "NPC", "Familiar"}, relatedCharacterId : {Undefined, "c1"}]
    \cup {[hp |-> [current |-> 1, max |-> 1, temp |-> <<-1>>]]}

InitCharacters ==
  /\ dbInstances = SeatedInstances
  /\ dbCharacters = EmptyTable
  /\ dbEncounters = EmptyTable
  /\ instances = SeatedInstances
  /\ characters = EmptyTable
  /\ encounters = EmptyTable
  /\ loading = FALSE
  /\ error = Undefined
  /\ uuid = [inst |-> 2, chr |-> 0, enc |-> 0]
  /\ stamp = 0
  /\ lastCall = Returned("none", Ok)
  /\ lastArg = NoCall
  /\ pending = <<>>

KindAddCharacter ==
  \E c \in KindCandidates :
    addCharacter("i1", c, "none") /\ Observe(Called(Undefined, c))

KindUpdateCharacter ==
  \E id \in CharIds, u \in KindUpdates :
    /\ lastCall' = Returned("updateCharacter", updateCharacterOutcome(id, u, "none"))
    /\ updateCharacter(id, u, "none")
    /\ Observe(Called(id, u))

KindSetAC ==
  \E id \in CharIds, v \in {12} :
    setAC(id, v, "none") /\ Observe(Called(id, v))

NextCharacters ==
  \/ KindAddCharacter
  \/ KindUpdateCharacter
  \/ KindSetAC

SpecCharacters == InitCharacters /\ [][NextCharacters]_vars

\* the candidate the validator sees in the call that lastCall' and lastArg'
\* describe: the object passed to addCharacter, or the stored record with
\* the updates laid over it
Validated ==
  CASE lastCall'.op = "addCharacter" -> lastArg'.value
    [] lastCall'.op = "updateCharacter" ->
         Merge(dbCharacters[lastArg'.id], lastArg'.value)
    [] lastCall'.op = "setAC" ->
         Merge(dbCharacters[lastArg'.id], [ac |-> lastArg'.value])

\* C13: when addCharacter, updateCharacter or an operation routed through
\* updateCharacter (setAC stands for them) is rejected by the validator, the persisted character table and the cached character
\* map are what they were before the call, and the caller gets the failure
\* of the first rule broken.
C13_RejectedLeavesNoMutation ==
  [][( /\ lastCall'.op \in {"addCharacter", "updateCharacter", "setAC"}
       /\ lastCall'.op # "addCharacter" => lastArg'.id \in DOMAIN dbCharacters
       /\ \E n \in 1..5 : BreaksRule(n, Validated) ) =>
         /\ dbCharacters' = dbCharacters
         /\ characters' = characters
         /\ \E n \in 1..5 : lastCall'.outcome = RuleMessage(n)
         /\ error' = lastCall'.outcome
    ]_vars

\* C13 witness: updateCharacter has been refused for turning a stored NPC
\* into a Familiar without related character; the NPC is still stored.
C13_Witness ==
  /\ lastCall = Returned("updateCharacter", "must have a related character ID")
  /\ lastArg.id \in DOMAIN dbCharacters
  /\ dbCharacters[lastArg.id].type = "NPC"
  /\ characters[lastArg.id] = dbCharacters[lastArg.id]
  /\ error = "must have a related character ID"

\* the type rules of a stored record
KindRules(c) ==
  /\ c.type \in {"Familiar", "Eidolon", "Companion"} => HasId(c.relatedCharacterId)
  /\ c.type \notin {"Familiar", "Eidolon", "Companion"} => ~HasId(c.relatedCharacterId)
  /\ c.type = "PC" => HasId(c.discordId)

\* C18: after any sequence of addCharacter and updateCharacter every
\* persisted character satisfies the type rules: a Familiar, Eidolon or
\* Companion has a related-character id, every other type has none, and a
\* PC has a player identifier.
C18_StoredKindsValid ==
  \A c \in DOMAIN dbCharacters : KindRules(dbCharacters[c])

\* C18 witness: a stored NPC was turned into a Familiar of c1 by one
\* updateCharacter call that changed type and related character together.
C18_Witness ==
  /\ lastCall = Returned("updateCharacter", Ok)
  /\ DOMAIN lastArg.value = {"type", "relatedCharacterId"}
  /\ lastArg.id \in DOMAIN dbCharacters
  /\ dbCharacters[lastArg.id].type = "Familiar"
  /\ dbCharacters[lastArg.id].relatedCharacterId = "c1"

(***************************************************************************)
(* The character methods await by await.  A call that has started sits in  *)
(* pending until it settles; between two of its awaits any other call may  *)
(* take a step.  Every db request is a transaction of its own.             *)
(*   HP method : db.getCharacter (its own read, the hp object is computed  *)
(*               from it), then updateCharacter                            *)
(*   updateCharacter : db.getCharacter, merge and validate; db.addCharacter;*)
(*               update of the cached map                                  *)
(***************************************************************************)
\* the callers of the store: each has at most one call pending
Callers == {"A", "B"}

Suspend(call) == pending (+) SetToBag({call})
Settle(call) == pending (-) SetToBag({call})
Resume(call, next) == (pending (-) SetToBag({call})) (+) SetToBag({next})

\* a call suspended at updateCharacter's db.getCharacter
AtGetCharacter(op, id, updates) ==
  [op |-> op, id |-> id, updates |-> updates, pc |-> "getCharacter",
   updatedCharacter |-> <<>>]

\* an HP method called: its own read has resolved, updateCharacter has set
\* loading and waits for its read; or the own read found nothing and the
\* method threw
AsyncHPMethod(op, id, updates) ==
  /\ BagCardinality(pending) < Cardinality(Callers)
  /\ IF id \in DOMAIN dbCharacters
     THEN /\ pending' = Suspend(AtGetCharacter(op, id, updates))
          /\ loading' = TRUE
          /\ UNCHANGED <<tables, error, uuid, stamp, lastCall, lastArg>>
     ELSE /\ lastCall' = Returned(op, "Character not found")
          /\ UNCHANGED <<tables, loading, error, uuid, stamp, lastArg, pending>>

\* what the callers of this part pass in
AsyncHPInputs ==
  {[current |-> 2, max |-> 2, temp |-> <<1>>],
   [current |-> 2, max |-> 1, temp |-> NoTemp]}

AsyncAddCharacter ==
  \E h \in AsyncHPInputs :
    /\ BagCardinality(pending) < Cardinality(Callers)
    /\ addCharacter("i1", HPCharacter(h), "none")
    /\ UNCHANGED <<lastArg, pending>>

AsyncUpdateCharacter ==
  \E id \in {CharIdPool[2]}, h \in AsyncHPInputs :
    /\ BagCardinality(pending) < Cardinality(Callers)
    /\ pending' = Suspend(AtGetCharacter("updateCharacter", id, [hp |-> h]))
    /\ loading' = TRUE
    /\ UNCHANGED <<tables, error, uuid, stamp, lastCall, lastArg>>

AsyncSetMaxHP ==
  \E id \in {CharIdPool[2]}, v \in {1, 2} :
    AsyncHPMethod("setMaxHP", id, setMaxHPUpdates(HpOf(id), v))

AsyncSetCurrentHP ==
  \E id \in {CharIdPool[2]}, v \in {2} :
    AsyncHPMethod("setCurrentHP", id, setCurrentHPUpdates(HpOf(id), v))

AsyncSetTempHP ==
  \E id \in {CharIdPool[2]}, v \in {1} :
    AsyncHPMethod("setTempHP", id, setTempHPUpdates(HpOf(id), v))

AsyncDamage ==
  \E id \in {CharIdPool[2]}, v \in {2} :
    AsyncHPMethod("damage", id, damageUpdates(HpOf(id), v))

AsyncHeal ==
  \E id \in {CharIdPool[2]}, v \in {1} :
    AsyncHPMethod("heal", id, healUpdates(HpOf(id), v))

\* The step below, had it shown the merged record in the cached map before
\* the record is written.
AsyncGetCharacterOptimistic ==
  \E call \in BagToSet(pending) :
    LET outcome == updateCharacterOutcome(call.id, call.updates, "none")
    IN /\ call.pc = "getCharacter"
       /\ IF outcome = Ok
          THEN /\ pending' = Resume(call,
                                [call EXCEPT
                                   !.pc = "addCharacter",
                                   !.updatedCharacter =
                                      Merge(dbCharacters[call.id], call.updates)])
               /\ characters' = Put(characters, call.id,
                                    Merge(dbCharacters[call.id], call.updates))
               /\ UNCHANGED <<dbInstances, dbCharacters, dbEncounters, instances,
                              encounters, loading, error, uuid, stamp, lastCall,
                              lastArg>>
          ELSE /\ Caught(outcome)
               /\ pending' = Settle(call)
               /\ lastCall' = Returned(call.op, outcome)
               /\ UNCHANGED lastArg

\* updateCharacter, lines 164-193: the read resolves, the record read is
\* merged with the updates and validated
AsyncGetCharacter ==
  \E call \in BagToSet(pending) :
    LET outcome == updateCharacterOutcome(call.id, call.updates, "none")
    IN /\ call.pc = "getCharacter"
       /\ IF outcome = Ok
          THEN /\ pending' = Resume(call,
                                [call EXCEPT
                                   !.pc = "addCharacter",
                                   !.updatedCharacter =
                                      Merge(dbCharacters[call.id], call.updates)])
               /\ UNCHANGED <<tables, loading, error, uuid, stamp, lastCall,
                              lastArg>>
          ELSE /\ Caught(outcome)
               /\ pending' = Settle(call)
               /\ lastCall' = Returned(call.op, outcome)
               /\ UNCHANGED lastArg

\* updateCharacter, line 195: db.addCharacter(updatedCharacter)
AsyncPutCharacter ==
  \E call \in BagToSet(pending) :
    /\ call.pc = "addCharacter"
    /\ dbCharacters' = DbPut(dbCharacters, call.updatedCharacter)
    /\ pending' = Resume(call, [call EXCEPT !.pc = "update"])
    /\ UNCHANGED <<dbInstances, dbEncounters, instances, characters, encounters,
                   loading, error, uuid, stamp, lastCall, lastArg>>

\* updateCharacter, lines 196-200: the cached map is updated and the call
\* returns
AsyncUpdateCache ==
  \E call \in BagToSet(pending) :
    /\ call.pc = "update"
    /\ characters' = Put(characters, call.id, call.updatedCharacter)
    /\ loading' = FALSE
    /\ pending' = Settle(call)
    /\ lastCall' = Returned(call.op, Ok)
    /\ UNCHANGED <<dbInstances, dbCharacters, dbEncounters, instances,
                   encounters, error, uuid, stamp, lastArg>>

NextAsync ==
  \/ AsyncAddCharacter
  \/ AsyncUpdateCharacter
  \/ AsyncSetMaxHP
  \/ AsyncSetCurrentHP
  \/ AsyncSetTempHP
  \/ AsyncDamage
  \/ AsyncHeal
  \/ AsyncGetCharacter
  \/ AsyncPutCharacter
  \/ AsyncUpdateCache

InitAsync ==
  /\ dbInstances = SeatedInstances
  /\ dbCharacters = EmptyTable
  /\ dbEncounters = EmptyTable
  /\ instances = SeatedInstances
  /\ characters = EmptyTable
  /\ encounters = EmptyTable
  /\ loading = FALSE
  /\ error = Undefined
  /\ uuid = [inst |-> 2, chr |-> 1, enc |-> 0]
  /\ stamp = 0
  /\ lastCall = Returned("none", Ok)
  /\ lastArg = NoCall
  /\ pending = EmptyBag

SpecAsync == InitAsync /\ [][NextAsync]_vars

\* C14: every character record in persistence has hp.current <= hp.max,
\* after any sequence of addCharacter, updateCharacter, setMaxHP,
\* setCurrentHP, setTempHP, damage and heal, also when two of them
\* interleave at their reads and writes.
C14_CurrentAtMostMax ==
  \A c \in DOMAIN dbCharacters :
    dbCharacters[c].hp.current <= dbCharacters[c].hp.max

\* C14 witness: setMaxHP has lowered max and written, while a setCurrentHP
\* that read the record before that write is about to put back the hp
\* object it computed from the old max.
C14_Witness ==
  \E a, b \in BagToSet(pending) :
    /\ a.op = "setMaxHP"
    /\ a.pc = "update"
    /\ b.op = "setCurrentHP"
    /\ b.pc = "addCharacter"
    /\ b.updatedCharacter.hp.current > dbCharacters[b.id].hp.max

\* temporary HP as a number: 0 when the property is absent
TempOf(hp) == IF hp.temp = NoTemp THEN 0 ELSE hp.temp[1]

\* the last two calls were op1 and then op2, both successful, on one character
Followed(op1, op2) ==
  /\ lastCall = Returned(op1, Ok)
  /\ lastCall' = Returned(op2, Ok)
  /\ lastArg.id = lastArg'.id

\* C15: setMaxHP(newMax) followed by setCurrentHP(v), from a valid HP state
\* and for all integers newMax and v, leaves 0 <= current <= max.
C15_SetMaxThenSetCurrent ==
  [][Followed("setMaxHP", "setCurrentHP") =>
       LET hp == dbCharacters'[lastArg'.id].hp
       IN 0 <= hp.current /\ hp.current <= hp.max
    ]_vars

\* C16 as claimed: damage(amount), amount >= 0, leaves
\* temp = max(temp - amount, 0) and
\* current = max(current - max(amount - temp, 0), 0), and max unchanged.
C16_DamageFloorsAtZero ==
  [][( /\ lastCall' = Returned("damage", Ok)
       /\ lastArg'.value >= 0 ) =>
         LET old == dbCharacters[lastArg'.id].hp
             new == dbCharacters'[lastArg'.id].hp
             amount == lastArg'.value
         IN /\ TempOf(new) = Max(TempOf(old) - amount, 0)
            /\ new.current = Max(old.current - Max(amount - TempOf(old), 0), 0)
            /\ new.max = old.max
    ]_vars

\* C16: damage(amount), amount >= 0, takes min(temp, amount) from temporary
\* HP; when something remains it takes the remainder from current HP,
\* floored at 0, and when nothing remains it leaves current HP as it is,
\* below 0 included; max is unchanged.
C16_DamageTempThenCurrent ==
  [][( /\ lastCall' = Returned("damage", Ok)
       /\ lastArg'.value >= 0 ) =>
         LET old == dbCharacters[lastArg'.id].hp
             new == dbCharacters'[lastArg'.id].hp
             amount == lastArg'.value
             remainder == Max(amount - TempOf(old), 0)
         IN /\ TempOf(new) = Max(TempOf(old) - amount, 0)
            /\ new.current = IF remainder > 0
                             THEN Max(old.current - remainder, 0)
                             ELSE old.current
            /\ new.max = old.max
    ]_vars

\* C16 witness: damage(2) on temp 1, current 2 has left temp 0, current 1.
C16_Witness ==
  /\ lastCall = Returned("damage", Ok)
  /\ lastArg.value = 2
  /\ lastArg.id \in DOMAIN dbCharacters
  /\ dbCharacters[lastArg.id].hp = [current |-> 1, max |-> 2, temp |-> <<0>>]

\* C17: heal(amount) sets current HP to min(current + amount, max) and
\* leaves temporary HP and max unchanged; so after damage(a) followed by
\* heal(a) temporary HP is not higher than right after the damage.
C17_HealCapsAtMax ==
  [][lastCall' = Returned("heal", Ok) =>
       LET old == dbCharacters[lastArg'.id].hp
           new == dbCharacters'[lastArg'.id].hp
           amount == lastArg'.value
       IN /\ new.current = Min(old.current + amount, old.max)
          /\ new.temp = old.temp
          /\ new.max = old.max
          /\ (Followed("damage", "heal") /\ lastArg.value = amount) =>
               TempOf(new) <= TempOf(old)
    ]_vars

\* C17 witness: heal(2) has stopped at max 2, on a character whose
\* temporary HP an earlier damage had brought to 0.
C17_Witness ==
  /\ lastCall = Returned("heal", Ok)
  /\ lastArg.value = 2
  /\ lastArg.id \in DOMAIN dbCharacters
  /\ dbCharacters[lastArg.id].hp = [current |-> 2, max |-> 2, temp |-> <<0>>]

\* C19: every persisted character has temporary HP absent or >= 0 after any
\* sequence of addCharacter, updateCharacter, setTempHP, damage and heal;
\* setTempHP(value) on a stored character succeeds and stores max(value, 0).
C19_TempNeverNegative ==
  [][/\ \A c \in DOMAIN dbCharacters' :
          dbCharacters'[c].hp.temp = NoTemp \/ dbCharacters'[c].hp.temp[1] >= 0
     /\ (lastCall'.op = "setTempHP" /\ lastArg'.id \in DOMAIN dbCharacters) =>
          /\ lastCall'.outcome = Ok
          /\ dbCharacters'[lastArg'.id].hp.temp =
               <<IF lastArg'.value > 0 THEN lastArg'.value ELSE 0>>
    ]_vars

\* C19 witness: setTempHP(-1) has stored temporary HP 0.
C19_Witness ==
  /\ lastCall = Returned("setTempHP", Ok)
  /\ lastArg.value = -1
  /\ dbCharacters[lastArg.id].hp.temp = <<0>>

(***************************************************************************)
(* Instances deleted: characters are added to two instances and instances  *)
(* are deleted; lastArg holds the id passed to deleteInstance.             *)
(***************************************************************************)
CascadeDeleteInstance ==
  \E i \in InstIds :
    deleteInstance(i, "none") /\ Observe(Called(i, 0))

NextCascade ==
  \/ DoAddCharacter(NoFailure)
  \/ CascadeDeleteInstance

SpecCascade == InitCharacters /\ [][NextCascade]_vars

\* the characters the instanceId index returns for i
OwnedBy(table, i) == {c \in DOMAIN table : table[c].instanceId = i}

\* C20: after deleteInstance(I) succeeds persistence holds no instance I and
\* no character owned by I, the characters and instances of other ids are
\* what they were, and both deletions are one transaction: no state holds a
\* character whose instance record is gone.
C20_DeleteInstanceCascades ==
  [][/\ lastCall' = Returned("deleteInstance", Ok) =>
          LET I == lastArg'.id
          IN /\ I \notin DOMAIN dbInstances'
             /\ OwnedBy(dbCharacters', I) = {}
             /\ \A j \in InstIds \ {I} :
                  /\ OwnedBy(dbCharacters', j) = OwnedBy(dbCharacters, j)
                  /\ \A c \in OwnedBy(dbCharacters, j) :
                       dbCharacters'[c] = dbCharacters[c]
                  /\ j \in DOMAIN dbInstances =>
                       j \in DOMAIN dbInstances' /\ dbInstances'[j] = dbInstances[j]
     /\ \A c \in DOMAIN dbCharacters' :
          dbCharacters'[c].instanceId \in DOMAIN dbInstances'
    ]_vars

\* C20 witness: deleteInstance(i1) has removed i1 and a character it owned,
\* which the cached map still shows, and a character of i2 is still stored.
C20_Witness ==
  /\ lastCall = Returned("deleteInstance", Ok)
  /\ lastArg.id = "i1"
  /\ "i1" \notin DOMAIN dbInstances
  /\ \E c \in DOMAIN characters :
       c \notin DOMAIN dbCharacters /\ characters[c].instanceId = "i1"
  /\ OwnedBy(dbCharacters, "i2") # {}

(***************************************************************************)
(* Instances deleted under an encounter: the encounter of the first        *)
(* instance is given a roster while instances are deleted.                 *)
(***************************************************************************)
NextOwner ==
  \/ DoAddParticipant(NoFailure)
  \/ DoUpdateParticipantInitiative(NoFailure)
  \/ DoNextTurn(NoFailure)
  \/ CascadeDeleteInstance

SpecOwner == InitSeated /\ [][NextOwner]_vars

Attempt(f) == lastArg' = [fail |-> f] /\ UNCHANGED pending

InitFailures ==
  /\ dbInstances = [i \in {"i1"} |-> SeatedInstances[i]]
  /\ dbCharacters = [c \in {"c1"} |-> SeatedCharacters[c]]
  /\ dbEncounters = EmptyTable
  /\ instances = dbInstances
  /\ characters = dbCharacters
  /\ encounters = EmptyTable
  /\ loading = FALSE
  /\ error = Undefined
  /\ uuid = [inst |-> 1, chr |-> 1, enc |-> 0]
  /\ stamp = 0
  /\ lastCall = Returned("none", Ok)
  /\ lastArg = [fail |-> "none"]
  /\ pending = <<>>

FailingInit ==
  \E f \in {"none", "init"} : init(f) /\ Attempt(f)

FailingCreateInstance ==
  \E d \in InstanceInputs, f \in {"none", "addInstance"} :
    createInstance(d, f) /\ Attempt(f)

FailingUpdateInstance ==
  \E f \in {"none", "addInstance"} :
    /\ lastCall' = Returned("updateInstance", updateInstanceOutcome("i1", f))
    /\ updateInstance("i1", [status |-> "archived"], f)
    /\ Attempt(f)

FailingDeleteInstance ==
  \E f \in {"none", "deleteInstance"} :
    deleteInstance("i1", f) /\ Attempt(f)

FailingAddCharacter ==
  \E c \in {x \in CharacterInputs : x.sessionId = "i1"},
     f \in {"none", "addCharacter"} :
    addCharacter("i1", c, f) /\ Attempt(f)

FailingUpdateCharacter ==
  \E f \in {"none", "getCharacter", "addCharacter"} :
    /\ lastCall' = Returned("updateCharacter",
                            updateCharacterOutcome("c1", [ac |-> 12], f))
    /\ updateCharacter("c1", [ac |-> 12], f)
    /\ Attempt(f)

FailingDeleteCharacter ==
  \E f \in {"none", "deleteCharacter"} :
    deleteCharacter("c1", f) /\ Attempt(f)

FailingDamage ==
  \E f \in {"none", "getCharacter (own)", "addCharacter"} :
    damage("c1", 1, f) /\ Attempt(f)

FailingCreateEncounter ==
  \E f \in {"none", "addEncounter"} :
    createEncounter("i1", f) /\ Attempt(f)

FailingAddParticipant ==
  \E c \in CharIds, f \in {"none", "addEncounter"} :
    addParticipant("e1", c, 1, f) /\ Attempt(f)

FailingNextTurn ==
  \E f \in {"none", "getEncounter"} : nextTurn("e1", f) /\ Attempt(f)

FailingRemoveParticipant ==
  \E f \in {"none", "addEncounter"} :
    removeParticipant("e1", "c1", f) /\ Attempt(f)

NextFailures ==
  \/ FailingInit
  \/ FailingCreateInstance
  \/ FailingUpdateInstance
  \/ FailingDeleteInstance
  \/ FailingAddCharacter
  \/ FailingUpdateCharacter
  \/ FailingDeleteCharacter
  \/ FailingDamage
  \/ FailingCreateEncounter
  \/ FailingAddParticipant
  \/ FailingNextTurn
  \/ FailingRemoveParticipant

SpecFailures == InitFailures /\ [][NextFailures]_vars

\* C22: no store operation swallows a failure: whenever a call records a
\* failure in the store's error field, or a database request it makes is
\* rejected, that failure is what the caller gets.
C22_FailuresPropagate ==
  [][/\ error' # error => lastCall'.outcome = error'
     /\ lastCall'.op \in {"init", "deleteCharacter"} /\ lastArg'.fail # "none"
          => lastCall'.outcome = DbError
    ]_vars

\* the call that has just returned had a database request rejected
PersistenceFailed(call, arg) ==
  \/ call.outcome = DbError
  \/ call.op \in {"init", "deleteCharacter"} /\ arg.fail # "none"

\* C23: when a database request of a mutating operation is rejected, the
\* cached characters, instances and encounters are exactly what they were
\* before the call (and so is what is persisted); only loading and error
\* may have changed.
C23_FailedWriteLeavesCache ==
  [][PersistenceFailed(lastCall', lastArg') =>
       /\ characters' = characters
       /\ instances' = instances
       /\ encounters' = encounters
       /\ UNCHANGED <<dbCharacters, dbInstances, dbEncounters>>
    ]_vars

\* C23 witness: the write of removeParticipant was rejected with a seated
\* participant, who is still in the cached roster, and the error is recorded.
C23_Witness ==
  /\ lastCall = Returned("removeParticipant", DbError)
  /\ lastArg.fail = "addEncounter"
  /\ error = DbError
  /\ "e1" \in DOMAIN encounters
  /\ encounters["e1"].participants # <<>>
  /\ encounters = dbEncounters

(***************************************************************************)
(* The derived store of the participants who act now, read while the       *)
(* roster is edited and characters are deleted.                            *)
(***************************************************************************)
\* $characters.find((c) => c.id === id): the cached record whose id field
\* is id, undefined when there is none
findCharacter(id) ==
  IF \E k \in DOMAIN characters : characters[k].id = id
  THEN characters[CHOOSE k \in DOMAIN characters : characters[k].id = id]
  ELSE Undefined

\* getCurrentParticipants, lines 982-993: { ...p, character } for every
\* participant at the current initiative, found or not
getCurrentParticipants(encounterId) ==
  IF encounterId \notin DOMAIN encounters THEN <<>>
  ELSE LET encounter == encounters[encounterId]
           current == SelectSeq(encounter.participants,
                        LAMBDA p : p.initiative = encounter.currentInitiative)
       IN [k \in 1..Len(current) |->
             [characterId |-> current[k].characterId,
              initiative |-> current[k].initiative,
              seq |-> current[k].seq,
              character |-> findCharacter(current[k].characterId)]]

ViewDeleteCharacter ==
  \E c \in CharIds : deleteCharacter(c, "none") /\ Observe(NoArg)

NextView ==
  \/ DoAddParticipant(NoFailure)
  \/ DoRemoveParticipant(NoFailure)
  \/ DoUpdateParticipantInitiative(NoFailure)
  \/ ViewDeleteCharacter

SpecView == InitSeated /\ [][NextView]_vars

\* C24: the current-participants view of an encounter is the participants
\* whose initiative is the current one and whose character is in the cached
\* map, in roster order, each joined with that character; a participant
\* whose character is missing is left out.
C24_ViewOmitsMissingCharacters ==
  \A e \in DOMAIN encounters :
    LET acting == SelectSeq(encounters[e].participants,
                    LAMBDA p : /\ p.initiative = encounters[e].currentInitiative
                               /\ p.characterId \in DOMAIN characters)
    IN getCurrentParticipants(e) =
         [k \in 1..Len(acting) |->
            [characterId |-> acting[k].characterId,
             initiative |-> acting[k].initiative,
             seq |-> acting[k].seq,
             character |-> characters[acting[k].characterId]]]

(***************************************************************************)
(* Updates that name an id: updateCharacter is handed partial records      *)
(* that may carry an id property; lastArg holds the id and the updates     *)
(* passed.                                                                 *)
(***************************************************************************)
IdUpdates ==
  [ac : {11, 12}] \cup [id : CharIds] \cup [id : CharIds, ac : {11, 12}]

InitIdentity ==
  /\ dbInstances = SeatedInstances
  /\ dbCharacters = [c \in {"c1"} |-> SeatedCharacters[c]]
  /\ dbEncounters = EmptyTable
  /\ instances = SeatedInstances
  /\ characters = dbCharacters
  /\ encounters = EmptyTable
  /\ loading = FALSE
  /\ error = Undefined
  /\ uuid = [inst |-> 2, chr |-> 1, enc |-> 0]
  /\ stamp = 0
  /\ lastCall = Returned("none", Ok)
  /\ lastArg = NoCall
  /\ pending = <<>>

IdAddCharacter ==
  \E c \in {x \in CharacterInputs : x.sessionId = Undefined} :
    addCharacter("i1", c, "none") /\ Observe(NoCall)

IdUpdateCharacter ==
  \E id \in CharIds, u \in IdUpdates :
    /\ lastCall' = Returned("updateCharacter", updateCharacterOutcome(id, u, "none"))
    /\ updateCharacter(id, u, "none")
    /\ Observe(Called(id, u))

NextIdentity ==
  \/ IdAddCharacter
  \/ IdUpdateCharacter

SpecIdentity == InitIdentity /\ [][NextIdentity]_vars

\* C25: a character's id is immutable: after any updateCharacter(id, updates)
\* that succeeds, whatever updates holds (an id property included), the
\* record persisted under key id and the record cached under key id have id
\* as their id field, and no record under another key is created or changed.
C25_CharacterIdImmutable ==
  [][lastCall' = Returned("updateCharacter", Ok) =>
       LET id == lastArg'.id
       IN /\ id \in DOMAIN dbCharacters' /\ dbCharacters'[id].id = id
          /\ id \in DOMAIN characters' /\ characters'[id].id = id
          /\ DOMAIN dbCharacters' = DOMAIN dbCharacters
          /\ \A k \in DOMAIN dbCharacters \ {id} : dbCharacters'[k] = dbCharacters[k]
          /\ \A k \in DOMAIN characters \ {id} :
               k \in DOMAIN characters' /\ characters'[k] = characters[k]
    ]_vars

(***************************************************************************)
(* The tags of instances: instances are created and updated with tag       *)
(* lists, and single tags are added and removed.                           *)
(***************************************************************************)
\* the longest tag list a caller passes
MaxTags == 2

\* the tags the callers use: "a", "A" and " a"
TagInputs == {<<"a">>, <<"A">>, <<" ", "a">>}

TagLists == UNION {[1..n -> TagInputs] : n \in 0..MaxTags}

InitTags ==
  /\ dbInstances = [i \in {"i1"} |-> SeatedInstances[i]]
  /\ dbCharacters = EmptyTable
  /\ dbEncounters = EmptyTable
  /\ instances = dbInstances
  /\ characters = EmptyTable
  /\ encounters = EmptyTable
  /\ loading = FALSE
  /\ error = Undefined
  /\ uuid = [inst |-> 1, chr |-> 0, enc |-> 0]
  /\ stamp = 0
  /\ lastCall = Returned("none", Ok)
  /\ lastArg = NoArg
  /\ pending = <<>>

TagsCreateInstance ==
  \E tags \in TagLists :
    createInstance([tags |-> tags], "none") /\ Observe(tags)

TagsUpdateInstance ==
  \E i \in InstIds, tags \in TagLists :
    /\ lastCall' = Returned("updateInstance", updateInstanceOutcome(i, "none"))
    /\ updateInstance(i, [tags |-> tags], "none")
    /\ Observe(tags)

TagsUpdateInstanceTags ==
  \E i \in InstIds, tags \in TagLists :
    /\ lastCall' = Returned("updateInstanceTags", updateInstanceOutcome(i, "none"))
    /\ updateInstanceTags(i, tags, "none")
    /\ Observe(tags)

TagsAddInstanceTag ==
  \E i \in InstIds, tag \in TagInputs :
    addInstanceTag(i, tag, "none") /\ Observe(<<tag>>)

TagsRemoveInstanceTag ==
  \E i \in InstIds, tag \in TagInputs :
    removeInstanceTag(i, tag, "none") /\ Observe(<<tag>>)

NextTags ==
  \/ TagsCreateInstance
  \/ TagsUpdateInstance
  \/ TagsUpdateInstanceTags
  \/ TagsAddInstanceTag
  \/ TagsRemoveInstanceTag

SpecTags == InitTags /\ [][NextTags]_vars

\* no two places of the list hold the same value
NoRepeats(list) ==
  \A i, j \in 1..Len(list) : list[i] = list[j] => i = j

\* C26: after any sequence of createInstance, updateInstance,
\* updateInstanceTags, addInstanceTag and removeInstanceTag, the tag list of
\* every stored instance holds no two equal tags and no two tags that are
\* equal once trimmed and lower-cased.
C26_TagsUniqueNormalized ==
  \A i \in DOMAIN dbInstances :
    /\ NoRepeats(dbInstances[i].tags)
    /\ NoRepeats([k \in 1..Len(dbInstances[i].tags) |->
                    toLowerCase(trim(dbInstances[i].tags[k]))])

(***************************************************************************)
(* Two calls on one character: setAC and damage are called once each on    *)
(* the same character and their awaits resolve in any order.  lastArg      *)
(* holds what each of the two was called with (0: not called yet).         *)
(***************************************************************************)
InitOverlap ==
  /\ dbInstances = SeatedInstances
  /\ dbCharacters = [c \in {"c1"} |->
                       [SeatedCharacters[c] EXCEPT
                          !.hp = [current |-> 2, max |-> 2, temp |-> NoTemp]]]
  /\ dbEncounters = EmptyTable
  /\ instances = SeatedInstances
  /\ characters = dbCharacters
  /\ encounters = EmptyTable
  /\ loading = FALSE
  /\ error = Undefined
  /\ uuid = [inst |-> 2, chr |-> 1, enc |-> 0]
  /\ stamp = 0
  /\ lastCall = Returned("none", Ok)
  /\ lastArg = [ac |-> 0, damage |-> 0]
  /\ pending = EmptyBag

\* setAC(c1, v): updateCharacter sets loading and waits for its read
OverlapSetAC ==
  \E v \in {11, 12} :
    /\ lastArg.ac = 0
    /\ pending' = Suspend(AtGetCharacter("setAC", "c1", [ac |-> v]))
    /\ lastArg' = [lastArg EXCEPT !.ac = v]
    /\ loading' = TRUE
    /\ UNCHANGED <<tables, error, uuid, stamp, lastCall>>

\* damage(c1, v): its own read has resolved and the new hp is computed from
\* it; updateCharacter sets loading and waits for its read
OverlapDamage ==
  \E v \in {1, 2} :
    /\ lastArg.damage = 0
    /\ pending' = Suspend(AtGetCharacter("damage", "c1",
                                         damageUpdates(HpOf("c1"), v)))
    /\ lastArg' = [lastArg EXCEPT !.damage = v]
    /\ loading' = TRUE
    /\ UNCHANGED <<tables, error, uuid, stamp, lastCall>>

NextOverlap ==
  \/ OverlapSetAC
  \/ OverlapDamage
  \/ AsyncGetCharacter
  \/ AsyncPutCharacter
  \/ AsyncUpdateCache

SpecOverlap == InitOverlap /\ [][NextOverlap]_vars

\* C27: two overlapping mutations of one character can lose an update.
\* Every call reports success, and once both calls have returned the
\* persisted record shows the armor class that setAC passed or the hit
\* points that damage computed, but not always both (the witness).
C27_OverlapKeepsOneOrBoth ==
  /\ lastCall.outcome = Ok
  /\ (pending = EmptyBag /\ lastArg.ac # 0 /\ lastArg.damage # 0) =>
       \/ dbCharacters["c1"].ac = lastArg.ac
       \/ dbCharacters["c1"].hp.current = 2 - lastArg.damage

\* C27 witness: setAC and damage have both returned with success, and the
\* persisted record has the new armor class and the hit points from before
\* the damage: the update of damage is lost.
C27_Witness ==
  /\ pending = EmptyBag
  /\ lastArg.ac # 0 /\ lastArg.damage # 0
  /\ lastCall.outcome = Ok
  /\ dbCharacters["c1"].ac = lastArg.ac
  /\ dbCharacters["c1"].hp.current = 2
  /\ characters["c1"] = dbCharacters["c1"]

(***************************************************************************)
(* The armor class set: setAC is called between calls that change the hit  *)
(* points; lastArg holds the id and the value of the last call.            *)
(***************************************************************************)
ACSetAC ==
  \E id \in CharIds, v \in {11, 12} :
    setAC(id, v, "none") /\ Observe(Called(id, v))

ACDamage ==
  \E id \in CharIds :
    damage(id, 1, "none") /\ Observe(Called(id, 1))

ACSetTempHP ==
  \E id \in CharIds :
    setTempHP(id, 1, "none") /\ Observe(Called(id, 1))

NextAC ==
  \/ IdAddCharacter
  \/ ACSetAC
  \/ ACDamage
  \/ ACSetTempHP

SpecAC == InitIdentity /\ [][NextAC]_vars

\* C28: setAC is idempotent: setAC(id, v) on a stored character leaves the
\* armor class v and the hit points as they were, and a second setAC(id, v)
\* right after it leaves the persisted and the cached record exactly as the
\* first call left them.
C28_SetACIdempotent ==
  [][lastCall'.op = "setAC" /\ lastArg'.id \in DOMAIN dbCharacters =>
       LET id == lastArg'.id
       IN /\ lastCall'.outcome = Ok
          /\ dbCharacters'[id].ac = lastArg'.value
          /\ dbCharacters'[id].hp = dbCharacters[id].hp
          /\ characters'[id] = dbCharacters'[id]
          /\ (lastCall = Returned("setAC", Ok) /\ lastArg = lastArg') =>
               /\ dbCharacters' = dbCharacters
               /\ characters' = characters
    ]_vars

\* C28 witness: setAC(c1, 12) has returned after hit points were lost (a
\* state that one more setAC(c1, 12) leaves as it is): the armor class is 12
\* and the hit points are the damaged ones.
C28_Witness ==
  /\ lastCall = Returned("setAC", Ok)
  /\ lastArg = Called("c1", 12)
  /\ dbCharacters["c1"].ac = 12
  /\ dbCharacters["c1"].hp.current = 0
  /\ characters["c1"] = dbCharacters["c1"]

\* C29: a round is one full pass over the distinct initiatives: on a fixed
\* non-empty roster with k distinct values, k nextTurn calls in a row raise
\* the round by exactly 1 and make each value current exactly once.  Told of
\* one call: it succeeds, leaves the roster alone, makes a roster value
\* current and raises the round by 0 or 1; with k = 1 it raises the round by
\* 1; with k = 2, right after another nextTurn, it changes the current value.
C29_RoundIsOnePass ==
  [][\A e \in DOMAIN dbEncounters :
       (lastCall'.op = "nextTurn" /\ Roster(e) # <<>>) =>
         LET old == dbEncounters[e]
             new == dbEncounters'[e]
             D == Distinct(old.participants)
         IN /\ lastCall'.outcome = Ok
            /\ new.participants = old.participants
            /\ new.currentInitiative \in InitiativeSet(old.participants)
            /\ new.currentRound \in {old.currentRound, old.currentRound + 1}
            /\ Len(D) = 1 => /\ new.currentRound = old.currentRound + 1
                             /\ new.currentInitiative = D[1]
            /\ (Len(D) = 2 /\ lastCall = Returned("nextTurn", Ok)) =>
                 new.currentInitiative # old.currentInitiative
    ]_vars

\* C30: the cached map changes only after the write has completed: in every
\* step that puts a record into the cached characters, that record is what
\* persistence holds under the id, or what a call that has had its write
\* acknowledged (and waits to update the cache) has written there.
C30_CacheAfterWrite ==
  [][\A id \in DOMAIN characters' :
       (id \notin DOMAIN characters \/ characters'[id] # characters[id]) =>
          \/ id \in DOMAIN dbCharacters' /\ characters'[id] = dbCharacters'[id]
          \/ \E call \in BagToSet(pending) :
               /\ call.pc = "update"
               /\ call.id = id
               /\ call.updatedCharacter = characters'[id]
    ]_vars

\* C30 witness: the write of a call has completed and the call has not yet
\* updated the cache, which still shows the record from before.
C30_Witness ==
  \E call \in BagToSet(pending) :
    /\ call.pc = "update"
    /\ call.id \in DOMAIN characters
    /\ dbCharacters[call.id] = call.updatedCharacter
    /\ characters[call.id] # call.updatedCharacter

\* C31: loading tells whether an operation is in progress: while two calls
\* overlap it stays true until both have returned, and it is false whenever
\* no call is in flight.
C31_LoadingWhileInFlight ==
  loading <=> pending # EmptyBag

\* C32: the round counter never decreases and only nextTurn changes it, by 0
\* or 1 a call: addParticipant, removeParticipant, updateParticipantInitiative
\* and bulkUpdateInitiatives leave the round, persisted and cached, as it was.
C32_RoundOnlyByNextTurn ==
  [][\A e \in DOMAIN dbEncounters :
       /\ e \in DOMAIN dbEncounters' /\ e \in DOMAIN encounters'
       /\ dbEncounters'[e].currentRound \in
            {dbEncounters[e].currentRound, dbEncounters[e].currentRound + 1}
       /\ encounters'[e].currentRound \in
            {encounters[e].currentRound, encounters[e].currentRound + 1}
       /\ lastCall'.op # "nextTurn" =>
            /\ dbEncounters'[e].currentRound = dbEncounters[e].currentRound
            /\ encounters'[e].currentRound = encounters[e].currentRound
    ]_vars

\* C32 witness: removeParticipant has taken a participant away and moved the
\* current initiative, and the round is the one the encounter was created with.
C32_Witness ==
  /\ lastCall = Returned("removeParticipant", Ok)
  /\ Roster("e1") # <<>>
  /\ dbEncounters["e1"].currentInitiative # 0
  /\ dbEncounters["e1"].currentRound = 0
  /\ encounters["e1"].currentRound = 0

\* C33: an encounter that has not started has no active turn: in every
\* state, persisted or cached, round 0 comes with currentInitiative 0.
C33_NotStartedNoTurn ==
  /\ \A e \in DOMAIN dbEncounters :
       dbEncounters[e].currentRound = 0 => dbEncounters[e].currentInitiative = 0
  /\ \A e \in DOMAIN encounters :
       encounters[e].currentRound = 0 => encounters[e].currentInitiative = 0

\* the participants a call has taken out of the roster of e
Removed(e) ==
  {Roster(e)[k] : k \in 1..Len(Roster(e))}
    \ {dbEncounters'[e].participants[k] :
         k \in 1..Len(dbEncounters'[e].participants)}

\* C34: removeParticipant changes currentInitiative only when a participant
\* it removes had the current initiative before the call; when the character
\* is not in the roster, the roster, the round and currentInitiative stay as
\* they were.
C34_RemoveFrame ==
  [][\A e \in DOMAIN dbEncounters :
       lastCall' = Returned("removeParticipant", Ok) =>
         /\ dbEncounters'[e].currentInitiative # dbEncounters[e].currentInitiative
              => \E p \in Removed(e) :
                   p.initiative = dbEncounters[e].currentInitiative
         /\ Removed(e) = {} => dbEncounters'[e] = dbEncounters[e]
    ]_vars

\* C36: a character holds at most one seat: no characterId occurs twice in
\* the roster of an encounter.
C36_OneSeatPerCharacter ==
  \A e \in DOMAIN dbEncounters :
    \A i, j \in 1..Len(Roster(e)) :
      Roster(e)[i].characterId = Roster(e)[j].characterId => i = j

(***************************************************************************)
(* Turns on a fixed roster: the encounter starts with any roster the       *)
(* roster operations leave (sorted, up to MaxAdds participants) and any    *)
(* current initiative, and nextTurn is called again and again.             *)
(***************************************************************************)
FixedRosters ==
  {SortByInitiative([k \in 1..n |-> Participant(cs[k], is[k], k)]) :
     <<n, cs, is>> \in
       UNION {{n} \X [1..n -> CharIds] \X [1..n -> InitVals] : n \in 1..MaxAdds}}

InitTurns ==
  /\ dbInstances = SeatedInstances
  /\ dbCharacters = SeatedCharacters
  /\ \E ps \in FixedRosters, current \in InitVals :
       dbEncounters = [e \in {"e1"} |->
                         [SeatedEncounters[e] EXCEPT
                            !.participants = ps,
                            !.currentInitiative = current]]
  /\ instances = SeatedInstances
  /\ characters = SeatedCharacters
  /\ encounters = dbEncounters
  /\ loading = FALSE
  /\ error = Undefined
  /\ uuid = [inst |-> 2, chr |-> 2, enc |-> 1]
  /\ stamp = MaxAdds
  /\ lastCall = Returned("none", Ok)
  /\ lastArg = NoArg
  /\ pending = <<>>

NextTurns == DoNextTurn(NoFailure)

\* nextTurn is called whenever it can be
SpecTurns == InitTurns /\ [][NextTurns]_vars /\ WF_vars(NextTurns)

\* C35: every participant gets a turn again and again: on a fixed non-empty
\* roster, with nextTurn called repeatedly, every initiative value of the
\* roster is the current initiative infinitely often, whatever the current
\* initiative was at the start.
C35_EveryValueHasTurns ==
  \A v \in InitVals :
    (v \in InitiativeSet(Roster("e1"))) =>
       []<>(dbEncounters["e1"].currentInitiative = v)

\* C37: with no call in flight the cache mirrors persistence: the cached
\* characters, instances and encounters are exactly the persisted records.
C37_CacheMirrorsPersistence ==
  pending = <<>> =>
    /\ characters = dbCharacters
    /\ instances = dbInstances
    /\ encounters = dbEncounters

\* C38: damage and heal never move hit points the wrong way, for any
\* integer amount, negative ones included: a damage call that succeeds
\* raises neither current nor temporary hit points, and a heal call that
\* succeeds does not lower current hit points nor leave them below 0.
C38_NeverTheWrongWay ==
  [][/\ lastCall' = Returned("damage", Ok) =>
          /\ dbCharacters'[lastArg'.id].hp.current
               <= dbCharacters[lastArg'.id].hp.current
          /\ TempOf(dbCharacters'[lastArg'.id].hp)
               <= TempOf(dbCharacters[lastArg'.id].hp)
     /\ lastCall' = Returned("heal", Ok) =>
          /\ dbCharacters'[lastArg'.id].hp.current
               >= dbCharacters[lastArg'.id].hp.current
          /\ dbCharacters'[lastArg'.id].hp.current >= 0
    ]_vars

====
